---- MODULE Spec2Model ----
(***************************************************************************)
(* A model of the pypacker layered packet engine: Packet (pypacker.py),    *)
(* the accessors synthesized by MetaPacket (pypacker_meta.py), TriggerList *)
(* (triggerlist.py), UDP (layer4/udp.py) and Radiotap                      *)
(* (layer12/radiotap.py).                                                  *)
(*                                                                         *)
(* Byte strings are sequences of 0..255.  Python objects live in a heap:   *)
(* a sequence of packet records, a packet's identity being its index.      *)
(* Every method is an operator from a heap to a result record              *)
(* [h |-> heap afterwards, r |-> return value, x |-> an exception left].   *)
(***************************************************************************)
EXTENDS Integers, Sequences, FiniteSets, TLC

VARIABLES
    heap,     \* the packets constructed so far
    steps,    \* number of operations performed on them
    last,     \* the last operation, with what held when it was called
    ret,      \* the byte string it returned (NoneB: none, ExcB: it raised)
    orig,     \* the buffer packet 1 was constructed from (NoneB: keywords)
    nwrites,  \* number of assignments performed so far (2: two or more)
    since,    \* the last assignment and the operations performed after it
    wr        \* the packets assigned to since a bin() last serialized them

vars == <<heap, steps, last, ret, orig, nwrites, since, wr>>

(***************************************************************************)
(* Bounds of the model.                                                    *)
(***************************************************************************)
\* number of operations the user performs on the constructed packets
MaxSteps == 3
\* size of the heap up to which the user constructs a further packet
MaxPkts == 3

(***************************************************************************)
(* Byte strings.                                                           *)
(***************************************************************************)
\* Python's None where a byte string is expected (b"" is <<>>)
NoneB == <<-1>>
\* a call that left by an exception has no return value
ExcB == <<-2>>

IsBytes(b) == b # NoneB /\ b # ExcB

Min(a, b) == IF a < b THEN a ELSE b
Max(a, b) == IF a > b THEN a ELSE b

\* buf[lo:hi] for 0 <= lo, 0 <= hi
Slice(buf, lo, hi) ==
    IF Min(lo, Len(buf)) >= Min(hi, Len(buf)) THEN <<>>
    ELSE SubSeq(buf, Min(lo, Len(buf)) + 1, Min(hi, Len(buf)))

\* buf[lo:]
SliceFrom(buf, lo) == Slice(buf, lo, Len(buf))

\* buf[-k:]
SliceLast(buf, k) == SliceFrom(buf, Max(Len(buf) - k, 0))

\* buf[lo:-k]
SliceToLast(buf, lo, k) == Slice(buf, lo, Max(Len(buf) - k, 0))

RECURSIVE Pow256(_)
Pow256(n) == IF n = 0 THEN 1 ELSE 256 * Pow256(n - 1)

\* big-endian encoding of v in n bytes
IntToBytes(v, n) == [k \in 1..n |-> (v \div Pow256(n - k)) % 256]

RECURSIVE BytesToInt(_)
BytesToInt(b) ==
    IF Len(b) = 0 THEN 0
    ELSE 256 * BytesToInt(SubSeq(b, 1, Len(b) - 1)) + b[Len(b)]

\* struct.unpack("<H", b)
BytesToIntLE(b) == b[1] + 256 * b[2]

(***************************************************************************)
(* struct.Struct: a compiled format is a sequence of entries, one per      *)
(* value; [c |-> "int", n] is an unsigned integer of n bytes ("B", "H",    *)
(* "I") and [c |-> "s", n] a byte string of n bytes ("%ds").  All modelled *)
(* classes keep the default byte order ">", which has no padding.          *)
(***************************************************************************)
FmtB == [c |-> "int", n |-> 1]
FmtH == [c |-> "int", n |-> 2]
FmtI == [c |-> "int", n |-> 4]
FmtS(n) == [c |-> "s", n |-> n]
\* the format None of a TriggerList field
NoFmt == [c |-> "None", n |-> 0]

RECURSIVE StructSize(_)
StructSize(fs) ==
    IF Len(fs) = 0 THEN 0 ELSE fs[1].n + StructSize(Tail(fs))

\* one value packed: an integer out of range is a struct.error; a byte
\* string is cut or zero-padded to the width (the values of the model stay
\* below 2^31, hence in the range of "I")
PackOk(f, v) == f.c = "s" \/ (v >= 0 /\ (f.n >= 4 \/ v < Pow256(f.n)))

PackOne(f, v) ==
    IF f.c = "s"
    THEN [k \in 1..f.n |-> IF k <= Len(v) THEN v[k] ELSE 0]
    ELSE IntToBytes(v, f.n)

RECURSIVE PackAll(_, _)
PackAll(fs, vs) ==
    IF Len(fs) = 0 THEN <<>>
    ELSE PackOne(fs[1], vs[1]) \o PackAll(Tail(fs), Tail(vs))

\* Struct.pack(*vs): the bytes, or NoneB for struct.error
StructPack(fs, vs) ==
    IF Len(fs) = Len(vs) /\ \A k \in 1..Len(fs) : PackOk(fs[k], vs[k])
    THEN PackAll(fs, vs)
    ELSE NoneB

\* offset of entry k in the packed bytes
FmtOffset(fs, k) == StructSize(SubSeq(fs, 1, k - 1))

\* Struct.unpack(b) for Len(b) = StructSize(fs)
StructUnpack(fs, b) ==
    [k \in 1..Len(fs) |->
        LET part == SubSeq(b, FmtOffset(fs, k) + 1, FmtOffset(fs, k) + fs[k].n)
        IN  IF fs[k].c = "s" THEN part ELSE BytesToInt(part)]

(***************************************************************************)
(* checksum.in_cksum: the 16-bit one's-complement sum of the big-endian    *)
(* 16-bit words of buf (an odd last byte is padded with a zero byte).      *)
(***************************************************************************)
RECURSIVE in_cksum_add(_)
in_cksum_add(buf) ==
    IF Len(buf) = 0 THEN 0
    ELSE IF Len(buf) = 1 THEN 256 * buf[1]
    ELSE 256 * buf[1] + buf[2] + in_cksum_add(SubSeq(buf, 3, Len(buf)))

in_cksum_done(s) ==
    LET s1 == (s \div 65536) + (s % 65536)
        s2 == s1 + (s1 \div 65536)
    IN  65535 - (s2 % 65536)

in_cksum(buf) == in_cksum_done(in_cksum_add(buf))

(***************************************************************************)
(* The protocol classes and their __hdr__.  UDP and Radiotap are the       *)
(* classes of the source.  IP stands for the address-bearing layer below   *)
(* UDP (a protocol byte and two 4-byte addresses), DNS and IEEE80211 for   *)
(* the layers above UDP and Radiotap: classes with one simple field that   *)
(* inherit Packet._dissect.  A class name also stands for its lowercased   *)
(* form, the attribute name of a body handler.                             *)
(***************************************************************************)
NoneC == "None"

\* the list [bts, dissect_callback] a TriggerList field holds until the
\* TriggerList is instantiated; cb: a dissect callback is given (the class
\* default is [b"", None])
TLCell(bts) == [k |-> "cell", bts |-> bts, cb |-> FALSE]

\* TriggerList.__init__: the instantiated list, empty until _lazy_dissect;
\* bts is _cached_result (NoneB: None), cb whether _dissect_callback is set,
\* items the elements (mask, value)
TriggerList(cb, buffer) ==
    [k |-> "list", bts |-> buffer, cb |-> cb, items |-> <<>>]

\* FlagTriggerList._pack: the values of the elements, joined
RECURSIVE FlagTriggerList_pack(_)
FlagTriggerList_pack(items) ==
    IF items = <<>> THEN <<>>
    ELSE items[1][2] \o FlagTriggerList_pack(Tail(items))

\* what TriggerList.bin returns, and val[0] of a list not instantiated
TriggerList_bin(v) ==
    IF v.k = "list" /\ v.bts = NoneB THEN FlagTriggerList_pack(v.items) ELSE v.bts

\* the TriggerList after bin(): the result is cached
TriggerList_cached(v) ==
    IF v.k = "list" THEN [v EXCEPT !.bts = TriggerList_bin(v)] ELSE v

UDP_hdr ==
    << [name |-> "sport", fmt |-> FmtH, tl |-> FALSE, def |-> 57005],
       [name |-> "dport", fmt |-> FmtH, tl |-> FALSE, def |-> 0],
       [name |-> "ulen",  fmt |-> FmtH, tl |-> FALSE, def |-> 8],
       [name |-> "sum",   fmt |-> FmtH, tl |-> FALSE, def |-> 0] >>

Radiotap_hdr ==
    << [name |-> "version",       fmt |-> FmtB,  tl |-> FALSE, def |-> 0],
       [name |-> "pad",           fmt |-> FmtB,  tl |-> FALSE, def |-> 0],
       [name |-> "len",           fmt |-> FmtH,  tl |-> FALSE, def |-> 2048],
       [name |-> "present_flags", fmt |-> FmtI,  tl |-> FALSE, def |-> 0],
       [name |-> "flags",         fmt |-> NoFmt, tl |-> TRUE,  def |-> TLCell(<<>>)] >>

IP_hdr ==
    << [name |-> "p",   fmt |-> FmtB,    tl |-> FALSE, def |-> 17],
       [name |-> "src", fmt |-> FmtS(4), tl |-> FALSE, def |-> <<0, 0, 0, 0>>],
       [name |-> "dst", fmt |-> FmtS(4), tl |-> FALSE, def |-> <<0, 0, 0, 0>>] >>

DNS_hdr ==
    << [name |-> "id", fmt |-> FmtH, tl |-> FALSE, def |-> 0] >>

IEEE80211_hdr ==
    << [name |-> "framectl", fmt |-> FmtH, tl |-> FALSE, def |-> 0] >>

\* a second class registered for UDP ports (UDP_PROTO_NTP), as DNS
NTP_hdr ==
    << [name |-> "flags", fmt |-> FmtB, tl |-> FALSE, def |-> 0] >>

Classes == {"IP", "UDP", "DNS", "NTP", "Radiotap", "IEEE80211"}

\* Protocol classes declared to exercise the engine on other schemas.  Mid
\* has a TriggerList between simple fields (byte strings, so that a value
\* unpacked into the wrong field is still a value the field can hold), Gap a field that is inactive
\* by default (default None, here -1) before an active one; both inherit
\* Packet._dissect.  Tlv is a header of a count n, a byte b and a
\* TriggerList opts of Opt packets, one per byte; Opt has one byte v.
Mid_hdr ==
    << [name |-> "a",    fmt |-> FmtB,  tl |-> FALSE, def |-> 1],
       [name |-> "opts", fmt |-> NoFmt, tl |-> TRUE,  def |-> TLCell(<<>>)],
       [name |-> "b",    fmt |-> FmtS(2), tl |-> FALSE, def |-> <<0, 2>>],
       [name |-> "c",    fmt |-> FmtS(1), tl |-> FALSE, def |-> <<3>>] >>

Gap_hdr ==
    << [name |-> "a", fmt |-> FmtB, tl |-> FALSE, def |-> 1],
       [name |-> "d", fmt |-> FmtH, tl |-> FALSE, def |-> -1],
       [name |-> "b", fmt |-> FmtH, tl |-> FALSE, def |-> 2] >>

Tlv_hdr ==
    << [name |-> "n",    fmt |-> FmtB,  tl |-> FALSE, def |-> 0],
       [name |-> "b",    fmt |-> FmtB,  tl |-> FALSE, def |-> 2],
       [name |-> "opts", fmt |-> NoFmt, tl |-> TRUE,  def |-> TLCell(<<>>)] >>

Opt_hdr ==
    << [name |-> "v", fmt |-> FmtB, tl |-> FALSE, def |-> 0] >>

Hdr(cls) ==
    CASE cls = "UDP" -> UDP_hdr
      [] cls = "Radiotap" -> Radiotap_hdr
      [] cls = "IP" -> IP_hdr
      [] cls = "DNS" -> DNS_hdr
      [] cls = "IEEE80211" -> IEEE80211_hdr
      [] cls = "NTP" -> NTP_hdr
      [] cls = "Mid" -> Mid_hdr
      [] cls = "Gap" -> Gap_hdr
      [] cls = "Tlv" -> Tlv_hdr
      [] cls = "Opt" -> Opt_hdr

\* _header_field_names, without the leading underscore of the shadowed name
header_field_names(cls) == [k \in 1..Len(Hdr(cls)) |-> Hdr(cls)[k].name]

FieldSet(cls) == {Hdr(cls)[k].name : k \in 1..Len(Hdr(cls))}

Field(cls, f) == Hdr(cls)[CHOOSE k \in 1..Len(Hdr(cls)) : Hdr(cls)[k].name = f]

(***************************************************************************)
(* Packet._handler, as the load_handler calls at module load leave it:     *)
(* { class name : { id : handler class } }.                                *)
(***************************************************************************)
RTAP_TYPE_80211 == 0

HandlerIds(cls) ==
    CASE cls = "UDP" -> {53, 5353, 123}
      [] cls = "Radiotap" -> {RTAP_TYPE_80211}
      [] cls = "IP" -> {17}
      [] OTHER -> {}

HandlerClass(cls, id) ==
    CASE cls = "UDP" -> IF id = 123 THEN "NTP" ELSE "DNS"
      [] cls = "Radiotap" -> "IEEE80211"
      [] cls = "IP" -> "UDP"

(***************************************************************************)
(* The class attributes MetaPacket.__new__ sets: what an instance reads    *)
(* until it assigns an attribute of its own.                               *)
(***************************************************************************)
NoLazy == [name |-> NoneC, clz |-> NoneC, buf |-> <<>>]

NoAttrs == [n \in {} |-> 0]

\* "hdr[2] is not None": a simple field whose default is None is inactive
ClassActive(hd) == hd.tl \/ hd.def # (IF hd.fmt.c = "int" THEN -1 ELSE <<-1>>)

\* the entries of __hdr__ that are active by default
ActiveHdr(cls) == SelectSeq(Hdr(cls), ClassActive)

ClassFormat(cls) ==
    [k \in 1..Len(ActiveHdr(cls)) |->
        IF ActiveHdr(cls)[k].tl THEN FmtS(0) ELSE ActiveHdr(cls)[k].fmt]

ClassCached(cls) ==
    StructPack(ClassFormat(cls),
               [k \in 1..Len(ActiveHdr(cls)) |->
                   IF ActiveHdr(cls)[k].tl THEN <<>> ELSE ActiveHdr(cls)[k].def])

MetaPacket_new(cls) ==
    [ cls                   |-> cls,
      vals                  |-> [f \in FieldSet(cls) |-> Field(cls, f).def],
      active                |-> [f \in FieldSet(cls) |-> ClassActive(Field(cls, f))],
      format                |-> [f \in FieldSet(cls) |-> Field(cls, f).fmt],
      header_format         |-> ClassFormat(cls),
      header_len            |-> StructSize(ClassFormat(cls)),
      header_format_changed |-> FALSE,
      header_cached         |-> ClassCached(cls),
      body_bytes            |-> <<>>,
      bodytypename          |-> NoneC,
      lower_layer           |-> 0,
      header_changed        |-> FALSE,
      body_changed          |-> FALSE,
      lazy_handler_data     |-> NoLazy,
      target_unpack_clz     |-> NoneC,
      unpacked              |-> "None",
      dissect_error         |-> FALSE,
      attrs                 |-> NoAttrs,
      fcs                   |-> NoneB ]

\* a result of a method
Res(h, r, x) == [h |-> h, r |-> r, x |-> x]

\* the element of a set of one element: The({e(v) : v \in {d}}) is e(d),
\* with d computed once
The(S) == CHOOSE v \in S : TRUE

(***************************************************************************)
(* Packet: change flags, body handler and body bytes.  No change listener  *)
(* is registered on the packets these operators are applied to, so         *)
(* _notify_changelistener() iterates over the empty class-level list.      *)
(* Listeners are registered by a TriggerList on the packets it holds: the  *)
(* setters that notify them are Packet_setfield and Packet_set_body_bytes  *)
(* of the section on TriggerLists of packets.                              *)
(***************************************************************************)
reset_changed(p) ==
    [p EXCEPT !.header_changed = FALSE, !.body_changed = FALSE]

HasLazy(p) == p.lazy_handler_data # NoLazy

\* self.__getattribute__(self._bodytypename)
BodyAttr(p) == p.attrs[p.bodytypename]

\* _set_bodyhandler without "self._lazy_handler_data = None": C2 fails
set_bodyhandler_keeps_lazy(h, i, hndl) ==
    LET p  == h[i]
        h1 == IF p.bodytypename # NoneC /\ ~HasLazy(p)
              THEN [h EXCEPT ![BodyAttr(p)].lower_layer = 0]
              ELSE h
        h2 == IF hndl = 0
              THEN [h1 EXCEPT ![i].bodytypename = NoneC,
                              ![i].body_bytes = <<>>]
              ELSE [h1 EXCEPT ![i].bodytypename = h1[hndl].cls,
                              ![i].body_bytes = NoneB,
                              ![hndl].lower_layer = i,
                              ![i].attrs = (h1[hndl].cls :> hndl) @@ p.attrs]
    IN  [h2 EXCEPT ![i].body_changed = TRUE]

\* _set_bodyhandler without "hndl_old._lower_layer = None": C35 fails
set_bodyhandler_keeps_link(h, i, hndl) ==
    LET p  == h[i]
        h2 == IF hndl = 0
              THEN [h EXCEPT ![i].bodytypename = NoneC,
                             ![i].body_bytes = <<>>]
              ELSE [h EXCEPT ![i].bodytypename = h[hndl].cls,
                             ![i].body_bytes = NoneB,
                             ![hndl].lower_layer = i,
                             ![i].attrs = (h[hndl].cls :> hndl) @@ p.attrs]
    IN  [h2 EXCEPT ![i].body_changed = TRUE,
                   ![i].lazy_handler_data = NoLazy]

set_bodyhandler(h, i, hndl) ==
    LET p  == h[i]
        h1 == IF p.bodytypename # NoneC /\ ~HasLazy(p)
              THEN [h EXCEPT ![BodyAttr(p)].lower_layer = 0]
              ELSE h
        h2 == IF hndl = 0
              THEN [h1 EXCEPT ![i].bodytypename = NoneC,
                              ![i].body_bytes = <<>>]
              ELSE [h1 EXCEPT ![i].bodytypename = h1[hndl].cls,
                              ![i].body_bytes = NoneB,
                              ![hndl].lower_layer = i,
                              ![i].attrs = (h1[hndl].cls :> hndl) @@ p.attrs]
    IN  [h2 EXCEPT ![i].body_changed = TRUE,
                   ![i].lazy_handler_data = NoLazy]

\* the setter of body_bytes without "self._set_bodyhandler(None)": C24 fails
set_body_bytes_keeps_handler(h, i, value) ==
    [h EXCEPT ![i].body_bytes = value,
              ![i].body_changed = TRUE,
              ![i].lazy_handler_data = NoLazy]

set_body_bytes(h, i, value) ==
    LET h1 == IF h[i].bodytypename # NoneC THEN set_bodyhandler(h, i, 0) ELSE h
    IN  [h1 EXCEPT ![i].body_bytes = value,
                   ![i].body_changed = TRUE,
                   ![i].lazy_handler_data = NoLazy]

(***************************************************************************)
(* Header format, unpacking and packing.                                   *)
(***************************************************************************)
ActiveNames(p) ==
    SelectSeq(header_field_names(p.cls), LAMBDA f : p.active[f])

\* what _update_header_format appends for an active field: the field's
\* format for a simple value, "%ds" of the cached bytes for a TriggerList
\* that is not instantiated
FieldFormat(p, f) ==
    IF Field(p.cls, f).tl THEN FmtS(Len(TriggerList_bin(p.vals[f])))
    ELSE p.format[f]

\* the fields after val.bin() was called on every active TriggerList
BinLists(p) ==
    [f \in DOMAIN p.vals |->
        IF Field(p.cls, f).tl /\ p.active[f] THEN TriggerList_cached(p.vals[f])
        ELSE p.vals[f]]

update_header_format(p) ==
    LET an == ActiveNames(p)
        fs == [k \in 1..Len(an) |-> FieldFormat(p, an[k])]
    IN  [p EXCEPT !.header_format = fs,
                  !.header_len = StructSize(fs),
                  !.header_format_changed = FALSE,
                  !.vals = BinLists(p)]

\* the names _unpack assigns to, in order: active fields with a format
UnpackNames(p) ==
    SelectSeq(header_field_names(p.cls),
              LAMBDA f : p.format[f] # NoFmt /\ p.active[f])

\* the values _unpack assigns: hu[k] to the k-th of the names
Unpacked(p) ==
    LET hu == StructUnpack(p.header_format, p.header_cached)
        un == UnpackNames(p)
    IN  [f \in DOMAIN p.vals |->
            IF \E k \in 1..Len(un) : un[k] = f
            THEN hu[CHOOSE k \in 1..Len(un) : un[k] = f]
            ELSE p.vals[f]]

\* _unpack: [p |-> the packet afterwards, x |-> Exception raised]
unpack(p) ==
    The({ IF Len(p2.header_cached) # StructSize(p2.header_format)
          THEN [p |-> p2, x |-> TRUE]                          \* struct.error
          ELSE [p |-> [p2 EXCEPT !.vals = Unpacked(p2)], x |-> FALSE]
        : p2 \in { IF p.header_format_changed
                   THEN update_header_format([p EXCEPT !.unpacked = "True"])
                   ELSE [p EXCEPT !.unpacked = "True"] } })

\* "if self._unpacked == False: self._unpack()" of the getters and setters
unpack_if_needed(p) ==
    IF p.unpacked = "False" THEN unpack(p) ELSE [p |-> p, x |-> FALSE]

\* the getter of a simple field: [p, r |-> value, x]
getfield_simple(p, f) ==
    The({ [p |-> u.p, r |-> u.p.vals[f], x |-> u.x] : u \in {unpack_if_needed(p)} })

\* the setter without "if obj._unpacked == False: obj._unpack()": C4 fails
setfield_simple_no_unpack(p, f, value) ==
    [p |-> [p EXCEPT !.vals[f] = value, !.header_changed = TRUE], x |-> FALSE]

\* None as a value of field f: -1 for a number, NoneB for a byte string
NoneOf(cls, f) == IF Field(cls, f).fmt.c = "int" THEN -1 ELSE NoneB

\* the setter that leaves the field as active as it is: C21 fails
setfield_simple_keeps_active(p, f, value) ==
    The({ IF u.x THEN u
          ELSE [p |-> [u.p EXCEPT !.vals[f] = value, !.header_changed = TRUE],
                x |-> FALSE]
        : u \in {unpack_if_needed(p)} })

\* the setter of a simple static field: None deactivates an active field,
\* another value activates an inactive one, both change the header format
setfield_simple(p, f, value) ==
    The({ IF u.x THEN u
          ELSE [p |-> [u.p EXCEPT
                         !.vals[f] = value,
                         !.header_changed = TRUE,
                         !.active[f] = (value # NoneOf(p.cls, f)),
                         !.header_format_changed =
                             @ \/ (u.p.active[f] = (value = NoneOf(p.cls, f)))],
                x |-> FALSE]
        : u \in {unpack_if_needed(p)} })

\* the values _pack_header collects from the active fields
HeaderValues(p) ==
    LET an == ActiveNames(p)
    IN  [k \in 1..Len(an) |->
            IF Field(p.cls, an[k]).tl THEN TriggerList_bin(p.vals[an[k]])
            ELSE p.vals[an[k]]]

\* the first part of _pack_header: unpack, else update the format
pack_header_prepare(p) ==
    IF p.unpacked # "True" THEN unpack(p)
    ELSE IF p.header_format_changed
    THEN [p |-> update_header_format(p), x |-> FALSE]
    ELSE [p |-> p, x |-> FALSE]

\* the second part: pack; struct.error is absorbed and None returned
pack_header_pack(p) ==
    The({ IF packed = NoneB
          THEN [p |-> [p EXCEPT !.vals = BinLists(p)], r |-> NoneB, x |-> FALSE]
          ELSE [p |-> [p EXCEPT !.header_cached = packed,
                                !.header_changed = FALSE,
                                !.vals = BinLists(p)],
                r |-> packed, x |-> FALSE]
        : packed \in {StructPack(p.header_format, HeaderValues(p))} })

\* _pack_header: [p, r |-> the header bytes or NoneB (None), x]
pack_header(p) ==
    IF ~p.header_changed THEN [p |-> p, r |-> p.header_cached, x |-> FALSE]
    ELSE The({ IF u.x THEN [p |-> u.p, r |-> ExcB, x |-> TRUE]
               ELSE pack_header_pack(u.p)
             : u \in {pack_header_prepare(p)} })

\* the property header_len
get_header_len(p) ==
    IF p.header_changed /\ p.header_format_changed
    THEN update_header_format(p)
    ELSE p

\* __len__
RECURSIVE Packet_len(_, _)
Packet_len(h, i) ==
    The({ IF p1.body_bytes # NoneB
          THEN Res([h EXCEPT ![i] = p1], p1.header_len + Len(p1.body_bytes), FALSE)
          ELSE IF HasLazy(p1)
          THEN Res([h EXCEPT ![i] = p1],
                   p1.header_len + Len(p1.lazy_handler_data.buf), FALSE)
          ELSE The({ Res(u.h, p1.header_len + u.r, FALSE)
                   : u \in {Packet_len([h EXCEPT ![i] = p1], BodyAttr(p1))} })
        : p1 \in {get_header_len(h[i])} })

\* _changed
RECURSIVE changed(_, _)
changed(h, i) ==
    IF i = 0 THEN FALSE
    ELSE IF h[i].header_changed \/ h[i].body_changed THEN TRUE
    ELSE IF ~HasLazy(h[i])
    THEN changed(h, IF h[i].bodytypename # NoneC THEN BodyAttr(h[i]) ELSE 0)
    ELSE FALSE

\* header + body of a handler; a header that could not be packed is None,
\* and None + bytes is a TypeError
Joined(hdr, body) ==
    IF body.x \/ hdr.r = NoneB \/ body.r = NoneB
    THEN Res(body.h, ExcB, TRUE)
    ELSE Res(body.h, hdr.r \o body.r, FALSE)

\* _get_bodybytes
RECURSIVE get_bodybytes(_, _)
get_bodybytes(h, i) ==
    IF HasLazy(h[i]) THEN Res(h, h[i].lazy_handler_data.buf, FALSE)
    ELSE IF h[i].bodytypename = NoneC THEN Res(h, h[i].body_bytes, FALSE)
    ELSE The({ IF a.x THEN Res([h EXCEPT ![BodyAttr(h[i])] = a.p], ExcB, TRUE)
               ELSE Joined(a, get_bodybytes([h EXCEPT ![BodyAttr(h[i])] = a.p],
                                            BodyAttr(h[i])))
             : a \in {pack_header(h[BodyAttr(h[i])])} })

(***************************************************************************)
(* Construction from bytes, dissection and body handlers.                  *)
(***************************************************************************)
RECURSIVE Packet_init_bytes(_, _, _, _)

\* _init_handler, called by _dissect of packet i
init_handler(h, i, hndl_type, buffer) ==
    LET p == h[i]
    IN  IF Len(buffer) = 0 THEN h
        ELSE IF hndl_type \notin HandlerIds(p.cls)
        THEN set_body_bytes(h, i, buffer)                      \* KeyError
        ELSE IF p.target_unpack_clz = NoneC \/ p.target_unpack_clz = p.cls
        THEN [h EXCEPT ![i].lazy_handler_data =
                           [name |-> HandlerClass(p.cls, hndl_type),
                            clz  |-> HandlerClass(p.cls, hndl_type),
                            buf  |-> buffer],
                       ![i].bodytypename = HandlerClass(p.cls, hndl_type),
                       ![i].body_bytes = NoneB,
                       ![i].body_changed = TRUE]
        ELSE The({ set_bodyhandler(n.h, i, n.r)
                 : n \in {Packet_init_bytes(h, HandlerClass(p.cls, hndl_type),
                                            buffer, i)} })

\* _init_triggerlist
init_triggerlist(h, i, name, bts) ==
    [h EXCEPT ![i].vals[name] = [TLCell(bts) EXCEPT !.cb = TRUE],
              ![i].header_format_changed = TRUE]

\* Packet._dissect, inherited by DNS and IEEE80211
Packet_dissect(h, i, buf) == Res(h, h[i].header_len, FALSE)

\* the dissector of the layer below UDP: dispatch on the protocol byte
IP_dissect(h, i, buf) ==
    IF Len(buf) = 0 THEN Res(h, 0, TRUE)                       \* IndexError
    ELSE Res(init_handler(h, i, buf[1], SliceFrom(buf, 9)), 9, FALSE)

\* [x for x in ports if x in Packet._handler["UDP"]][0], the last of
\* them instead of the first: C12 fails
UDP_htype_last(buf) ==
    LET ports == <<BytesToInt(Slice(buf, 0, 2)), BytesToInt(Slice(buf, 2, 4))>>
        found == SelectSeq(ports, LAMBDA x : x \in HandlerIds("UDP"))
    IN  IF Len(found) = 0 THEN -1 ELSE found[Len(found)]

\* [x for x in ports if x in Packet._handler["UDP"]][0], or -1 for the
\* IndexError of an empty list
UDP_htype(buf) ==
    LET ports == <<BytesToInt(Slice(buf, 0, 2)), BytesToInt(Slice(buf, 2, 4))>>
        found == SelectSeq(ports, LAMBDA x : x \in HandlerIds("UDP"))
    IN  IF Len(found) = 0 THEN -1 ELSE found[1]

\* UDP._dissect without the try around the handler lookup: the IndexError
\* of an empty list of registered ports leaves _dissect, C11 fails
UDP_dissect_strict(h, i, buf) ==
    IF Len(buf) < 4 \/ UDP_htype(buf) = -1 THEN Res(h, 0, TRUE)
    ELSE Res(init_handler(h, i, UDP_htype(buf), SliceFrom(buf, 8)), 8, FALSE)

UDP_dissect(h, i, buf) ==
    IF Len(buf) < 4 THEN Res(h, 0, TRUE)                       \* struct.error
    ELSE IF UDP_htype(buf) = -1 THEN Res(h, 8, FALSE)
    ELSE Res(init_handler(h, i, UDP_htype(buf), SliceFrom(buf, 8)), 8, FALSE)

TSFT_MASK == 16777216
FLAGS_MASK == 33554432

\* v & mask == mask, for a mask of one bit
HasMask(v, mask) == (v \div mask) % 2 = 1

\* whether _dissect finds a frame check sequence: it tests bit 0x10 of
\* buf[0], or of buf[8] when TSFT is announced
FcsFound(buf, flags) ==
    /\ HasMask(flags, FLAGS_MASK)
    /\ HasMask(buf[(IF HasMask(flags, TSFT_MASK) THEN 8 ELSE 0) + 1], 16)

Radiotap_dissect(h, i, buf) ==
    IF Len(buf) < 8 THEN Res(h, 0, TRUE)                       \* struct.error
    ELSE
      LET flags == BytesToInt(Slice(buf, 4, 8))
          hdr_len == BytesToIntLE(Slice(buf, 2, 4))
          h1 == [h EXCEPT ![i].vals.present_flags = flags]
      IN  IF HasMask(flags, FLAGS_MASK) /\ HasMask(flags, TSFT_MASK) /\ Len(buf) < 9
          THEN Res(h1, 0, TRUE)                                \* IndexError
          ELSE IF FcsFound(buf, flags)
          THEN Res(init_handler(
                       init_triggerlist([h1 EXCEPT ![i].fcs = SliceLast(buf, 4)],
                                        i, "flags", Slice(buf, 8, hdr_len)),
                       i, RTAP_TYPE_80211, SliceToLast(buf, hdr_len, 4)),
                   hdr_len, FALSE)
          ELSE Res(init_handler(
                       init_triggerlist(h1, i, "flags", Slice(buf, 8, hdr_len)),
                       i, RTAP_TYPE_80211, SliceFrom(buf, hdr_len)),
                   hdr_len, FALSE)

\* _dissect of Tlv: the count, then the TriggerList of that many bytes
Tlv_dissect(h, i, buf) ==
    IF Len(buf) = 0 THEN Res(h, 0, TRUE)                       \* IndexError
    ELSE Res(init_triggerlist(h, i, "opts", Slice(buf, 2, 2 + buf[1])),
             2 + buf[1], FALSE)

dissect(h, i, buf) ==
    CASE h[i].cls = "UDP" -> UDP_dissect(h, i, buf)
      [] h[i].cls = "Radiotap" -> Radiotap_dissect(h, i, buf)
      [] h[i].cls = "IP" -> IP_dissect(h, i, buf)
      [] h[i].cls = "Tlv" -> Tlv_dissect(h, i, buf)
      [] OTHER -> Packet_dissect(h, i, buf)

\* the end of __init__(buf): the result d of _dissect is taken over, or
\* the exception it raised is absorbed
init_finish(d, i, buf) ==
    The({ [h1 EXCEPT ![i] = [reset_changed(h1[i]) EXCEPT !.unpacked = "False"]]
        : h1 \in { IF d.x
                   THEN [d.h EXCEPT ![i].dissect_error = TRUE]
                   ELSE [d.h EXCEPT ![i].header_len = d.r,
                                    ![i].header_cached = Slice(buf, 0, d.r),
                                    ![i].body_bytes =
                                        IF d.h[i].body_changed THEN @
                                        ELSE SliceFrom(buf, d.r)] } })

\* Packet.__init__(buf) and Packet.__init__(buf, parent): the new packet is
\* the next index of the heap; parent = 0 when none is given
Packet_init_bytes(h, cls, buf, parent) ==
    Res(init_finish(
            dissect(Append(h, [MetaPacket_new(cls) EXCEPT !.target_unpack_clz =
                        IF parent = 0 THEN NoneC ELSE h[parent].target_unpack_clz]),
                    Len(h) + 1, buf),
            Len(h) + 1, buf),
        Len(h) + 1, FALSE)

\* Packet.__init__(**kwargs) and Packet.__init__(): kw is a sequence of
\* <<field, value>>
\* setattr(self, k, v) of the constructor: the setter of the property of a
\* schema field; any other name becomes an attribute of the instance
setattr_kw(p, k, v) ==
    IF k \in FieldSet(p.cls) THEN setfield_simple(p, k, v)
    ELSE [p |-> [p EXCEPT !.attrs = (k :> v) @@ @], x |-> FALSE]

\* the loop over kwargs: [p, x |-> a setattr raised]
RECURSIVE SetAll(_, _)
SetAll(p, kw) ==
    IF Len(kw) = 0 THEN [p |-> p, x |-> FALSE]
    ELSE The({ IF u.x THEN u ELSE SetAll(u.p, Tail(kw))
             : u \in {setattr_kw(p, kw[1][1], kw[1][2])} })

Packet_init_kw(h, cls, kw) ==
    The({ IF u.x THEN Res(h, 0, TRUE)
          ELSE Res(Append(h, [u.p EXCEPT !.unpacked = "True"]), Len(h) + 1, FALSE)
        : u \in {SetAll(MetaPacket_new(cls), kw)} })

\* __getattr__(self._lazy_handler_data[0]): the handler class never raises
\* (its __init__ absorbs what _dissect raises)
getattr_lazy(h, i) ==
    The({ Res([set_bodyhandler(n.h, i, n.r) EXCEPT
                   ![i].lazy_handler_data = NoLazy,
                   ![i].body_changed = FALSE],
              n.r, FALSE)
        : n \in {Packet_init_bytes(h, h[i].lazy_handler_data.clz,
                                   h[i].lazy_handler_data.buf, i)} })

\* _get_bodyhandler: the handler's index, 0 for None
get_bodyhandler(h, i) ==
    IF HasLazy(h[i]) THEN getattr_lazy(h, i)
    ELSE IF h[i].bodytypename # NoneC THEN Res(h, BodyAttr(h[i]), FALSE)
    ELSE Res(h, 0, FALSE)

(***************************************************************************)
(* Serialization: Packet.bin, UDP.bin with its auto fields, Radiotap.bin.  *)
(***************************************************************************)
RECURSIVE bin(_, _, _)

\* the body of Packet.bin that parses the lazy handler data and takes the
\* handler's bin(): C30 fails
bin_body_parsing(h, i, update_auto_fields) ==
    IF HasLazy(h[i])
    THEN The({ bin(g.h, g.r, update_auto_fields) : g \in {getattr_lazy(h, i)} })
    ELSE IF h[i].bodytypename # NoneC
    THEN bin(h, BodyAttr(h[i]), update_auto_fields)
    ELSE Res(h, h[i].body_bytes, FALSE)

\* the body of Packet.bin: lazy data, else the handler's bin(), else the
\* raw bytes
bin_body(h, i, update_auto_fields) ==
    IF HasLazy(h[i]) THEN Res(h, h[i].lazy_handler_data.buf, FALSE)
    ELSE IF h[i].bodytypename # NoneC
    THEN bin(h, BodyAttr(h[i]), update_auto_fields)
    ELSE Res(h, h[i].body_bytes, FALSE)

\* the header of Packet.bin with body b: header_tmp + body_tmp with a header
\* that is None is a TypeError, raised after _reset_changed()
bin_header(b, i) ==
    The({ IF hd.x THEN Res([b.h EXCEPT ![i] = hd.p], ExcB, TRUE)
          ELSE IF hd.r = NoneB \/ b.r = NoneB
          THEN Res([b.h EXCEPT ![i] = reset_changed(hd.p)], ExcB, TRUE)
          ELSE Res([b.h EXCEPT ![i] = reset_changed(hd.p)], hd.r \o b.r, FALSE)
        : hd \in {pack_header(b.h[i])} })

\* Packet.bin
Packet_bin(h, i, update_auto_fields) ==
    The({ IF b.x THEN b ELSE bin_header(b, i)
        : b \in {bin_body(h, i, update_auto_fields)} })

HasAddresses(cls) == {"src", "dst"} \subseteq FieldSet(cls)

\* pack(">4s4sBBH", src, dst, 0, 17, n) and pack(">16s16sxBH", src, dst, 17, n)
PseudoHeader(src, dst, n) ==
    IF Len(src) = 4
    THEN StructPack(<<FmtS(4), FmtS(4), FmtB, FmtB, FmtH>>, <<src, dst, 0, 17, n>>)
    ELSE StructPack(<<FmtS(16), FmtS(16), FmtS(1), FmtB, FmtH>>, <<src, dst, <<>>, 17, n>>)

\* RFC 768, p2: a computed checksum of 0 is sent as 0xffff
SumValue(csum) == IF csum = 0 THEN 65535 ELSE csum

\* _calc_sum, first statement: self.sum = 0
calc_sum_zero(h, i) ==
    The({ Res([h EXCEPT ![i] = z.p], 0, z.x)
        : z \in {setfield_simple(h[i], "sum", 0)} })

\* udp_bin = self.header_bytes + self.body_bytes
calc_sum_bin(h, i) ==
    The({ IF hb.x THEN Res([h EXCEPT ![i] = hb.p], ExcB, TRUE)
          ELSE Joined(hb, get_bodybytes([h EXCEPT ![i] = hb.p], i))
        : hb \in {pack_header(h[i])} })

\* the pseudo header and the checksum over it and udp_bin = u.r;
\* struct.error is absorbed
calc_sum_set(u, i, src, dst) ==
    The({ IF ps = NoneB THEN Res(u.h, 0, FALSE)
          ELSE The({ Res([u.h EXCEPT ![i] = fin.p], 0, fin.x)
                   : fin \in {setfield_simple(u.h[i], "sum",
                                 SumValue(in_cksum(ps \o u.r)))} })
        : ps \in {PseudoHeader(src, dst, Len(u.r))} })

\* _calc_sum once src and dst are read
calc_sum_rest(h, i, src, dst) ==
    The({ IF z.x THEN z
          ELSE The({ IF u.x THEN Res(u.h, 0, TRUE)
                     ELSE calc_sum_set(u, i, src, dst)
                   : u \in {calc_sum_bin(z.h, i)} })
        : z \in {calc_sum_zero(h, i)} })

\* UDP._calc_sum with lower layer l: AttributeError and struct.error are
\* absorbed, what _unpack raises and the TypeError of None + bytes are not
calc_sum_lower(h, i, l) ==
    IF ~HasAddresses(h[l].cls) THEN Res(h, 0, FALSE)           \* AttributeError
    ELSE The({ IF s.x THEN Res([h EXCEPT ![l] = s.p], 0, TRUE)
               ELSE calc_sum_rest([h EXCEPT ![l] = s.p], i, s.r, s.p.vals["dst"])
             : s \in {getfield_simple(h[l], "src")} })

calc_sum(h, i) == calc_sum_lower(h, i, h[i].lower_layer)

\* self.ulen = len(self)
update_ulen(h, i) ==
    The({ The({ Res([n.h EXCEPT ![i] = u.p], 0, u.x)
              : u \in {setfield_simple(n.h[i], "ulen", n.r)} })
        : n \in {Packet_len(h, i)} })

\* whether UDP.bin calls _calc_sum: not without a lower layer; with an
\* unchanged lower header only when this or an upper layer changed
NeedsUpdate(h, i, ch) ==
    IF h[i].lower_layer = 0 THEN FALSE
    ELSE IF ~h[h[i].lower_layer].header_changed THEN ch
    ELSE TRUE

\* the auto fields of UDP.bin
update_auto(h, i) ==
    The({ IF u.x THEN u
          ELSE IF NeedsUpdate(u.h, i, changed(h, i)) THEN calc_sum(u.h, i)
          ELSE u
        : u \in { IF changed(h, i) THEN update_ulen(h, i) ELSE Res(h, 0, FALSE) } })

\* UDP.bin without "if update_auto_fields:": C7 fails
UDP_bin_always(h, i, update_auto_fields) ==
    The({ IF c.x THEN Res(c.h, ExcB, TRUE)
          ELSE Packet_bin(c.h, i, update_auto_fields)
        : c \in {update_auto(h, i)} })

UDP_bin(h, i, update_auto_fields) ==
    IF ~update_auto_fields THEN Packet_bin(h, i, update_auto_fields)
    ELSE The({ IF c.x THEN Res(c.h, ExcB, TRUE)
               ELSE Packet_bin(c.h, i, update_auto_fields)
             : c \in {update_auto(h, i)} })

\* the property fcs: b"" while _fcs is not set
get_fcs(p) == IF p.fcs = NoneB THEN <<>> ELSE p.fcs

Radiotap_bin(h, i, update_auto_fields) ==
    The({ IF b.x THEN b ELSE Res(b.h, b.r \o get_fcs(b.h[i]), FALSE)
        : b \in {Packet_bin(h, i, update_auto_fields)} })

bin(h, i, update_auto_fields) ==
    CASE h[i].cls = "UDP" -> UDP_bin(h, i, update_auto_fields)
      [] h[i].cls = "Radiotap" -> Radiotap_bin(h, i, update_auto_fields)
      [] OTHER -> Packet_bin(h, i, update_auto_fields)

(***************************************************************************)
(* Navigation.                                                             *)
(***************************************************************************)
\* dissect_full: the loop reads the shadowed attributes named by
\* _header_field_names, which changes nothing; then the body handler
RECURSIVE dissect_full(_, _)
dissect_full(h, i) ==
    The({ IF g.r = 0 THEN g.h ELSE dissect_full(g.h, g.r)
        : g \in {get_bodyhandler(h, i)} })

\* the property highest_layer
RECURSIVE highest_layer(_, _)
highest_layer(h, i) ==
    The({ IF g.r = 0 THEN Res(g.h, i, FALSE) ELSE highest_layer(g.h, g.r)
        : g \in {get_bodyhandler(h, i)} })

\* the property lowest_layer
RECURSIVE lowest_layer(_, _)
lowest_layer(h, i) ==
    IF h[i].lower_layer = 0 THEN i ELSE lowest_layer(h, h[i].lower_layer)

\* __add__ that sets the handler of self instead of the highest layer:
\* C18 and C19 fail
Packet_add_at_self(h, i, packet_to_add) ==
    set_bodyhandler([h EXCEPT ![i].target_unpack_clz = "type"], i, packet_to_add)

\* the loop of __add__: up while a body type name is set
RECURSIVE AddTop(_, _)
AddTop(h, i) ==
    IF h[i].bodytypename = NoneC THEN Res(h, i, FALSE)
    ELSE The({ AddTop(g.h, g.r) : g \in {get_bodyhandler(h, i)} })

\* __add__
Packet_add(h, i, packet_to_add) ==
    The({ set_bodyhandler(t.h, t.r, packet_to_add)
        : t \in {AddTop([h EXCEPT ![i].target_unpack_clz = "type"], i)} })

(***************************************************************************)
(* The inputs: the buffers and keyword arguments packets are built from,   *)
(* and the values assigned to their fields.                                *)
(***************************************************************************)
UDPHeader(sport, dport, ulen, sum) ==
    StructPack(<<FmtH, FmtH, FmtH, FmtH>>, <<sport, dport, ulen, sum>>)

IPHeader(proto, src, dst) ==
    StructPack(<<FmtB, FmtS(4), FmtS(4)>>, <<proto, src, dst>>)

AddrA == <<10, 0, 0, 1>>
AddrB == <<10, 0, 0, 2>>

UDPBufs ==
    { UDPHeader(53, 9999, 10, 0) \o <<1, 2>>,      \* registered sport, wrong sum
      UDPHeader(1, 53, 9, 5) \o <<1>>,             \* registered dport, short DNS
      UDPHeader(1, 2, 77, 5) \o <<9>>,             \* no handler, wrong ulen
      UDPHeader(53, 2, 8, 0),                      \* empty body
      <<0, 53, 0, 5, 0>>,                          \* shorter than the header
      <<0, 53, 0>> }                               \* ports cannot be read

IPBufs ==
    { IPHeader(17, AddrA, AddrB) \o UDPHeader(53, 9999, 10, 0) \o <<1, 2>>,
      IPHeader(17, AddrA, AddrB) \o UDPHeader(1, 2, 77, 5) \o <<9>>,
      IPHeader(17, AddrA, AddrB) \o <<5>>,         \* UDP cannot be dissected
      IPHeader(17, AddrA, AddrB),                  \* no body
      IPHeader(99, AddrA, AddrB) \o <<1, 2, 3>> }  \* no handler

\* version, pad, len (little endian), present_flags, variable block, body, FCS
RadiotapBufs ==
    { <<0, 0, 9, 0,   2, 0, 0, 0,  0>> \o <<1, 2, 3, 4, 5>>,
      <<16, 0, 9, 0,  2, 0, 0, 0,  16>> \o <<1, 2>> \o <<7, 7, 7, 7>>,
      <<16, 0, 9, 0,  2, 0, 0, 0,  16>> \o <<7, 8, 9, 10>>,
      <<0, 0, 17, 0,  3, 0, 0, 0,  16, 2, 3, 4, 5, 6, 7, 8,  16>>
          \o <<1, 2>> \o <<7, 7, 7, 7>>,
      <<0, 0, 8, 0,   0, 0, 0, 0>> \o <<1, 2>>,
      <<0, 0, 8>> }

\* how a packet is constructed: from buf, or (buf = NoneB) from keywords
FromBytes(cls, buf) == [cls |-> cls, buf |-> buf, kw |-> <<>>]
FromKw(cls, kw) == [cls |-> cls, buf |-> NoneB, kw |-> kw]

Roots ==
    {FromBytes("UDP", b) : b \in UDPBufs}
    \cup {FromBytes("IP", b) : b \in IPBufs}
    \cup {FromBytes("Radiotap", b) : b \in RadiotapBufs}
    \cup {FromKw("IP", <<<<"src", AddrA>>, <<"dst", AddrB>>>>), FromKw("UDP", <<>>)}

\* the packets added above another one
Uppers ==
    { FromKw("UDP", <<<<"sport", 1>>>>),
      FromKw("UDP", <<>>),
      FromKw("DNS", <<>>),
      FromBytes("UDP", UDPHeader(1, 2, 77, 5) \o <<9>>) }

Construct(h, c) ==
    IF c.buf = NoneB THEN Packet_init_kw(h, c.cls, c.kw)
    ELSE Packet_init_bytes(h, c.cls, c.buf, 0)

\* the assignments to simple fields: <<field, value>>
Writes(cls) ==
    CASE cls = "UDP" -> {<<"sport", 1>>, <<"sport", 70000>>, <<"dport", 53>>,
                         <<"ulen", 9>>, <<"sum", 7>>}
      [] cls = "IP" -> {<<"src", <<10, 0, 0, 9>>>>}
      [] cls = "DNS" -> {<<"id", 5>>}
      [] cls = "Radiotap" -> {<<"version", 1>>}
      [] cls = "IEEE80211" -> {<<"framectl", 3>>}
      [] cls = "NTP" -> {<<"flags", 1>>}
      [] cls = "Mid" -> {<<"c", <<9>>>>}
      [] cls = "Gap" -> {<<"b", 9>>, <<"d", 5>>}
      [] cls = "Tlv" -> {<<"b", 9>>}
      [] cls = "Opt" -> {<<"v", 9>>}

Bodies == {<<>>, <<4, 2>>}

(***************************************************************************)
(* The state machine: a packet is constructed, then the user performs      *)
(* operations on it and on the packets reachable from it.                  *)
(***************************************************************************)
Ids == 1..Len(heap)

\* packet i and the handlers attached above it
RECURSIVE UpChain(_, _)
UpChain(h, i) ==
    {i} \cup (IF h[i].bodytypename # NoneC /\ ~HasLazy(h[i])
              THEN UpChain(h, BodyAttr(h[i])) ELSE {})

NoWrite == [id |-> 0, f |-> "", v |-> -1, ok |-> FALSE, ops |-> <<>>]

Note(ops, tag) ==
    IF ops = <<"many">> \/ Len(ops) = 2 THEN <<"many">> ELSE Append(ops, tag)

\* the packets another one is added to at the start: those made from
\* keywords and the one parsed without a body
Lowers == {c \in Roots : c.buf = NoneB \/ c.buf = IPHeader(17, AddrA, AddrB)}

\* Class(...), or Class(...) + Upper(...)
Start(c, u) ==
    IF u.cls = NoneC THEN Construct(<<>>, c).h
    ELSE The({ Packet_add(n.h, 1, n.r) : n \in {Construct(Construct(<<>>, c).h, u)} })

Init ==
    \E c \in Roots :
      \E u \in {FromKw(NoneC, <<>>)} \cup {v \in Uppers : c \in Lowers} :
        /\ heap = Start(c, u)
        /\ orig = IF u.cls = NoneC THEN c.buf ELSE NoneB
        /\ steps = 0
        /\ last = [op |-> "init", id |-> 0, arg |-> "", wr |-> {}, chg |-> {},
                   upd |-> {}, pre |-> <<>>]
        /\ ret = NoneB
        /\ nwrites = 0
        /\ since = NoWrite
        /\ wr = {}

\* ulen and sum of a UDP packet as a read returns them (-1: it raises)
Visible(p) ==
    The({ IF u.x THEN <<-1, -1>> ELSE <<u.p.vals["ulen"], u.p.vals["sum"]>>
        : u \in {unpack_if_needed(p)} })

\* what every operation records: itself, and of the state it is called in
\* the packets written to (wr), the UDP packets for which _changed() holds
\* (chg), those whose bin() would call _calc_sum (upd), and the visible
\* ulen and sum (pre)
Op(name, i, arg, h2, r) ==
    /\ steps' = steps + 1
    /\ heap' = h2
    /\ ret' = r
    /\ orig' = orig
    /\ last' = [op |-> name, id |-> i, arg |-> arg, wr |-> wr,
                chg |-> {j \in Ids : heap[j].cls = "UDP" /\ changed(heap, j)},
                upd |-> {j \in Ids : heap[j].cls = "UDP"
                                     /\ NeedsUpdate(heap, j, changed(heap, j))},
                pre |-> [j \in {k \in Ids : heap[k].cls = "UDP"} |->
                            Visible(heap[j])]]

\* an operation that assigns nothing
Read(tag) ==
    /\ nwrites' = nwrites
    /\ since' = [since EXCEPT !.ops = Note(@, tag)]

\* an assignment of v to f of packet i; ok: it raised nothing
Wrote(i, f, v, ok) ==
    /\ nwrites' = Min(nwrites + 1, 2)
    /\ since' = [id |-> i, f |-> f, v |-> v, ok |-> ok, ops |-> <<>>]
    /\ wr' = wr \cup {i}

\* x = packet.f
GetField ==
    \E i \in Ids :
        /\ steps < MaxSteps
        /\ \E f \in {g \in FieldSet(heap[i].cls) : ~Field(heap[i].cls, g).tl} :
               \E g \in {getfield_simple(heap[i], f)} :
                   /\ Op("getfield", i, "", [heap EXCEPT ![i] = g.p],
                         IF g.x THEN ExcB ELSE NoneB)
                   /\ Read("getfield")
                   /\ wr' = wr

\* packet.f = v
SetField ==
    \E i \in Ids :
        /\ steps < MaxSteps
        /\ \E w \in Writes(heap[i].cls) :
               \E u \in {setfield_simple(heap[i], w[1], w[2])} :
                   /\ Op("setfield", i, w[1], [heap EXCEPT ![i] = u.p],
                         IF u.x THEN ExcB ELSE NoneB)
                   /\ Wrote(i, w[1], w[2], ~u.x)

\* packet.header_bytes
GetHeaderBytes ==
    \E i \in Ids :
        /\ steps < MaxSteps
        /\ \E g \in {pack_header(heap[i])} :
               /\ Op("header_bytes", i, "", [heap EXCEPT ![i] = g.p], g.r)
               /\ Read("header_bytes")
               /\ wr' = wr

\* packet.body_bytes
GetBodyBytes ==
    \E i \in Ids :
        /\ steps < MaxSteps
        /\ \E g \in {get_bodybytes(heap, i)} :
               /\ Op("body_bytes", i, "", g.h, g.r)
               /\ Read("body_bytes")
               /\ wr' = wr

\* packet.body_bytes = v
SetBodyBytes ==
    \E i \in Ids :
        /\ steps < MaxSteps
        /\ \E v \in Bodies :
               /\ Op("set_body_bytes", i, "", set_body_bytes(heap, i, v), NoneB)
               /\ Wrote(i, "body_bytes", v, TRUE)

\* packet.upper_layer
GetUpperLayer ==
    \E i \in Ids :
        /\ steps < MaxSteps
        /\ \E g \in {get_bodyhandler(heap, i)} :
               /\ Op("upper_layer", i, "", g.h, NoneB)
               /\ Read("upper_layer")
               /\ wr' = wr

\* packet.upper_layer = None
ClearUpperLayer ==
    \E i \in Ids :
        /\ steps < MaxSteps
        /\ Op("set_upper_layer", i, "None", set_bodyhandler(heap, i, 0), NoneB)
        /\ Wrote(i, "upper_layer", -1, TRUE)

\* packet.upper_layer = Class(...)
SetUpperLayer ==
    \E i \in Ids :
        /\ steps < MaxSteps
        /\ Len(heap) < MaxPkts
        /\ \E c \in Uppers :
              \E n \in {Construct(heap, c)} :
                  /\ Op("set_upper_layer", i, c.cls, set_bodyhandler(n.h, i, n.r), NoneB)
                  /\ Wrote(i, "upper_layer", -1, TRUE)

\* packet + Class(...)
Add ==
    \E i \in Ids :
        /\ steps < MaxSteps
        /\ Len(heap) < MaxPkts
        /\ \E c \in Uppers :
              \E n \in {Construct(heap, c)} :
                \E h2 \in {Packet_add(n.h, i, n.r)} :
                  /\ Op("add", i, c.cls, h2, NoneB)
                  /\ Wrote(h2[n.r].lower_layer, "upper_layer", -1, TRUE)

\* packet.bin(update_auto_fields)
Bin ==
    \E i \in Ids :
        /\ steps < MaxSteps
        /\ \E auto \in BOOLEAN :
               \E b \in {bin(heap, i, auto)} :
                   /\ Op("bin", i, IF auto THEN "T" ELSE "F", b.h, b.r)
                   /\ Read(IF auto THEN "binT" ELSE "binF")
                   /\ wr' = wr \ UpChain(heap, i)

\* len(packet)
GetLen ==
    \E i \in Ids :
        /\ steps < MaxSteps
        /\ Op("len", i, "", Packet_len(heap, i).h, NoneB)
        /\ Read("len")
        /\ wr' = wr

\* packet.header_len
GetHeaderLen ==
    \E i \in Ids :
        /\ steps < MaxSteps
        /\ Op("header_len", i, "", [heap EXCEPT ![i] = get_header_len(@)], NoneB)
        /\ Read("header_len")
        /\ wr' = wr

\* packet.hexdump(only_header=True) packs the header as header_bytes does;
\* len(None) is a TypeError
HexdumpHeader ==
    \E i \in Ids :
        /\ steps < MaxSteps
        /\ \E g \in {pack_header(heap[i])} :
               /\ Op("hexdump", i, "", [heap EXCEPT ![i] = g.p],
                     IF g.x \/ g.r = NoneB THEN ExcB ELSE NoneB)
               /\ Read("hexdump")
               /\ wr' = wr

\* packet.dissect_full()
DissectFull ==
    \E i \in Ids :
        /\ steps < MaxSteps
        /\ Op("dissect_full", i, "", dissect_full(heap, i), NoneB)
        /\ Read("dissect_full")
        /\ wr' = wr

\* packet.highest_layer
GetHighestLayer ==
    \E i \in Ids :
        /\ steps < MaxSteps
        /\ Op("highest_layer", i, "", highest_layer(heap, i).h, NoneB)
        /\ Read("highest_layer")
        /\ wr' = wr

Next ==
    \/ GetField
    \/ SetField
    \/ GetHeaderBytes
    \/ GetBodyBytes
    \/ SetBodyBytes
    \/ GetUpperLayer
    \/ ClearUpperLayer
    \/ SetUpperLayer
    \/ Add
    \/ Bin
    \/ GetLen
    \/ GetHeaderLen
    \/ HexdumpHeader
    \/ DissectFull
    \/ GetHighestLayer

Spec == Init /\ [][Next]_vars

(***************************************************************************)
(* Round trip, body representation and header cache.                       *)
(***************************************************************************)
NoDissectError == \A j \in Ids : ~heap[j].dissect_error

\* the last operation was packet 1's bin(update_auto_fields=False), of a
\* packet made from a buffer and never written to
RoundTripCase ==
    /\ orig # NoneB
    /\ last.op = "bin" /\ last.id = 1 /\ last.arg = "F"
    /\ nwrites = 0
    /\ NoDissectError

\* C1: Class(buf).bin(update_auto_fields=False) returns exactly buf for a
\* buffer accepted without dissect_error, whatever was read before and
\* whether or not upper layers are still lazy, as long as nothing was written
C1_RoundTrip == RoundTripCase => ret = orig

\* C1 fails for a Radiotap frame with a frame check sequence and no 802.11
\* bytes before it: the sequence is serialized twice
C1_FcsTwice ==
    /\ RoundTripCase
    /\ heap[1].cls = "Radiotap"
    /\ heap[1].fcs # NoneB
    /\ ret = orig \o heap[1].fcs

\* the three body representations of a packet
BodyRaw(p) ==
    p.body_bytes # NoneB /\ p.bodytypename = NoneC /\ ~HasLazy(p)

BodyLazy(p) ==
    /\ p.body_bytes = NoneB /\ HasLazy(p)
    /\ p.bodytypename = p.lazy_handler_data.name
    /\ p.bodytypename \notin DOMAIN p.attrs

BodyAttached(p) ==
    /\ p.body_bytes = NoneB /\ ~HasLazy(p)
    /\ p.bodytypename \in DOMAIN p.attrs

\* C2: after construction and after any sequence of body_bytes assignments,
\* upper_layer assignments (None included), A + B, lazy accesses and bin()
\* calls, every packet has exactly one body representation: raw bytes, lazy
\* handler data or an attached upper packet
C2_BodyExclusive ==
    \A j \in Ids :
        /\ BodyRaw(heap[j]) \/ BodyLazy(heap[j]) \/ BodyAttached(heap[j])
        /\ ~(BodyRaw(heap[j]) /\ BodyLazy(heap[j]))
        /\ ~(BodyRaw(heap[j]) /\ BodyAttached(heap[j]))
        /\ ~(BodyLazy(heap[j]) /\ BodyAttached(heap[j]))

\* a packet parsed with a lazy upper layer got another upper layer assigned
\* and was serialized
C2_Witness ==
    /\ orig # NoneB
    /\ last.op = "bin" /\ last.id = 1
    /\ since.f = "upper_layer" /\ since.id = 1
    /\ BodyAttached(heap[1])
    /\ \E j \in Ids : BodyRaw(heap[j])

\* the header of p as the current field values serialize: the fields of a
\* packet not yet unpacked have the values _unpack gives them (ExcB when it
\* raises), the format is the one of the active fields, NoneB when a value
\* does not fit
CurrentHeader(p) ==
    The({ IF u.x THEN ExcB
          ELSE The({ StructPack(q.header_format, HeaderValues(q))
                   : q \in {update_header_format(u.p)} })
        : u \in {unpack_if_needed(p)} })

\* C3: in every reachable state of a packet, header_changed = false implies
\* that the cached header bytes are the bytes the current values of the
\* active fields pack to, also after field writes, failed packs and bin()
C3_CacheValid ==
    \A j \in Ids :
        (~heap[j].header_changed /\ CurrentHeader(heap[j]) # ExcB)
            => heap[j].header_cached = CurrentHeader(heap[j])

\* C3 fails after a failed pack in bin(): the flag is reset although the
\* cache still holds the bytes of the values before the write
C3_StaleAfterFailedPack ==
    /\ last.op = "bin" /\ ret = ExcB
    /\ heap[last.id].unpacked = "True" /\ ~heap[last.id].header_changed
    /\ CurrentHeader(heap[last.id]) = NoneB
    /\ IsBytes(heap[last.id].header_cached)

(***************************************************************************)
(* Field writes and what bin() makes of them.                              *)
(***************************************************************************)
\* the field values of Class(buf), as reading a field decodes them
Decoded(cls, buf) == unpack(Packet_init_bytes(<<>>, cls, buf, 0).h[1]).p.vals

\* the fields bin(update_auto_fields=True) computes
AutoFields(cls) == IF cls = "UDP" THEN {"ulen", "sum"} ELSE {}

\* the first operation on p = Class(buf) is the write p.f = v
WriteFirst ==
    /\ orig # NoneB
    /\ since.id = 1 /\ since.ok /\ since.f \in FieldSet(heap[1].cls)
    /\ nwrites = 1

\* ... and the second is p.bin(), which returned bytes
WriteThenBin ==
    /\ WriteFirst
    /\ steps = 2 /\ last.op = "bin" /\ last.id = 1 /\ IsBytes(ret)

\* the value of field g as it is read: the bytes of a TriggerList
Shown(cls, g, v) == IF Field(cls, g).tl THEN TriggerList_bin(v) ELSE v

\* the values of the fields in fs are those decoded from buf, but v for f
Persisted(vals, fs) ==
    \A g \in fs :
        Shown(heap[1].cls, g, vals[g])
            = IF g = since.f THEN since.v
              ELSE Shown(heap[1].cls, g, Decoded(heap[1].cls, orig)[g])

RECURSIVE Wire(_, _)
BodyWire(h, j) ==
    IF HasLazy(h[j]) THEN h[j].lazy_handler_data.buf
    ELSE IF h[j].bodytypename # NoneC THEN Wire(h, BodyAttr(h[j]))
    ELSE h[j].body_bytes

Wire(h, j) == CurrentHeader(h[j]) \o BodyWire(h, j)

\* the checksum of UDP packet j over lower layer l: pseudo header, the
\* header with sum = 0, the body
RefSum(h, j, l) ==
    LET a == unpack_if_needed(h[l]).p.vals
        z == CurrentHeader([unpack_if_needed(h[j]).p EXCEPT !.vals.sum = 0])
        b == z \o BodyWire(h, j)
    IN  SumValue(in_cksum(PseudoHeader(a["src"], a["dst"], Len(b)) \o b))

\* ulen and sum of UDP packet j match its current header and body
AutoOK(h, j) ==
    /\ h[j].vals["ulen"] = 8 + Len(BodyWire(h, j))
    /\ HasAddresses(h[h[j].lower_layer].cls)
          => h[j].vals["sum"] = RefSum(h, j, h[j].lower_layer)

\* the last operation was a bin(update_auto_fields=True) that returned bytes
BinTrueDone == last.op = "bin" /\ last.arg = "T" /\ IsBytes(ret)

\* the UDP layers over a lower layer that the last bin() serialized
SerializedUDP ==
    {j \in UpChain(heap, last.id) : heap[j].cls = "UDP" /\ heap[j].lower_layer # 0}

\* C5: bin(update_auto_fields=True) observes every write made since the
\* last bin() on a UDP layer over a lower layer and on the layers attached
\* above it, whatever was read in between: ulen and sum then match the
\* current header and body
C5_WritesObserved ==
    BinTrueDone =>
        \A j \in SerializedUDP :
            (last.wr \cap UpChain(heap, j) # {}) => AutoOK(heap, j)

\* C5 fails when header_bytes is read between the write and bin(): the
\* read clears header_changed, _changed() is false in bin() and the
\* written ulen is left as it is, whatever the lower layer
C5_WriteMissed ==
    /\ BinTrueDone
    /\ since.f = "ulen" /\ since.ok /\ since.ops = <<"header_bytes", "binT">>
    /\ since.id \in SerializedUDP
    /\ ~HasAddresses(heap[heap[since.id].lower_layer].cls)
    /\ heap[since.id].vals["ulen"] # 8 + Len(BodyWire(heap, since.id))

\* C6: when a UDP layer above a layer with src and dst has changed, itself
\* or a layer above it, bin(update_auto_fields=True) sets ulen to
\* 8 + len(body) and sum to the checksum of pseudo header, header with
\* sum = 0 and body, 0xFFFF for 0, so that the serialized sum is never 0
C6_AutoValues ==
    BinTrueDone =>
        \A j \in SerializedUDP \cap last.chg :
            HasAddresses(heap[heap[j].lower_layer].cls)
                => AutoOK(heap, j) /\ heap[j].vals["sum"] # 0

\* C6 fails for a UDP layer that carries another UDP layer whose body
\* changed: its checksum covers the upper header before the upper bin()
\* sets ulen there
C6_UpperUpdatedLater ==
    /\ BinTrueDone
    /\ \E j \in SerializedUDP \cap last.chg :
          /\ HasAddresses(heap[heap[j].lower_layer].cls)
          /\ heap[j].bodytypename = "UDP"
          /\ heap[j].vals["ulen"] = 8 + Len(BodyWire(heap, j))
          /\ heap[j].vals["sum"] # RefSum(heap, j, heap[j].lower_layer)

(***************************************************************************)
(* bin(update_auto_fields=False), parsed data and user-set checksums.      *)
(***************************************************************************)
\* the last operation was a bin(update_auto_fields=False) that returned bytes
BinFalseDone == last.op = "bin" /\ last.arg = "F" /\ IsBytes(ret)

\* the number of bytes the last bin() returned before those of packet j
RECURSIVE Offset(_, _)
Offset(k, j) ==
    IF k = j THEN 0
    ELSE Len(heap[k].header_cached) + Offset(BodyAttr(heap[k]), j)

\* the bytes the last bin() returned carry ulen and sum = v for UDP packet j
Carries(j, v) ==
    /\ Slice(ret, Offset(last.id, j) + 4, Offset(last.id, j) + 6) = IntToBytes(v[1], 2)
    /\ Slice(ret, Offset(last.id, j) + 6, Offset(last.id, j) + 8) = IntToBytes(v[2], 2)

\* the UDP packets the last bin() serialized whose fields can be read
ReadableUDP ==
    {j \in UpChain(heap, last.id) \cap DOMAIN last.pre : last.pre[j] # <<-1, -1>>}

\* bin(update_auto_fields=False) modifies no ulen and no sum, and returns
\* the values visible before the call
BinFalseFrame ==
    BinFalseDone =>
        /\ \A j \in DOMAIN last.pre : Visible(heap[j]) = last.pre[j]
        /\ \A j \in ReadableUDP : Carries(j, last.pre[j])

\* the same for the UDP packets whose header cache holds what the current
\* values pack to (C3: it does not after a pack or an unpack that failed)
BinFalseFrameValid ==
    BinFalseDone =>
        /\ \A j \in DOMAIN last.pre : Visible(heap[j]) = last.pre[j]
        /\ \A j \in ReadableUDP :
              heap[j].header_cached = CurrentHeader(heap[j])
                  => Carries(j, last.pre[j])

\* a write, then bin(update_auto_fields=False), then bin(True)
WriteBinBin == since.ok /\ since.ops = <<"binF", "binT">> /\ BinTrueDone

C8_NoCorrection ==
    (/\ orig # NoneB /\ nwrites = 0 /\ NoDissectError
     /\ last.op = "bin" /\ last.id = 1 /\ last.arg = "T")
        => ret = orig

\* C8 fails as C1 does: the frame check sequence of a Radiotap frame
\* without 802.11 bytes is serialized twice
C8_FcsTwice ==
    /\ orig # NoneB /\ nwrites = 0 /\ NoDissectError
    /\ last.op = "bin" /\ last.id = 1 /\ last.arg = "T"
    /\ heap[1].cls = "Radiotap" /\ heap[1].fcs # NoneB
    /\ ret = orig \o heap[1].fcs

\* the user assigned sum of a UDP packet and the next operation is a bin()
\* with update_auto_fields=True that serializes it
SumThenBin ==
    /\ since.f = "sum" /\ since.ok /\ since.ops = <<"binT">>
    /\ BinTrueDone /\ since.id \in UpChain(heap, last.id)

\* C9: there is no update on user-set checksums: bin(True) serializes the
\* value the user assigned to sum
C9_UserSumKept ==
    SumThenBin =>
        /\ heap[since.id].vals["sum"] = since.v
        /\ Carries(since.id, <<heap[since.id].vals["ulen"], since.v>>)

\* C9 fails over a layer with addresses: the assignment sets header_changed,
\* and bin() replaces the value by the checksum it computes
C9_SumOverwritten ==
    /\ SumThenBin
    /\ heap[since.id].lower_layer # 0
    /\ heap[since.id].vals["sum"] = RefSum(heap, since.id, heap[since.id].lower_layer)
    /\ heap[since.id].vals["sum"] # since.v

(***************************************************************************)
(* Lazy upper layers.                                                      *)
(***************************************************************************)
\* Class(buf) with its upper layers left lazy
Fresh == Packet_init_bytes(<<>>, heap[1].cls, orig, 0).h

\* the class of the highest layer reached from packet 1, and its bytes
Highest(h) ==
    The({ <<t.h[t.r].cls, bin(t.h, t.r, FALSE).r>> : t \in {highest_layer(h, 1)} })

\* packet 1 was made from a buffer and nothing was written since
Untouched == orig # NoneB /\ nwrites = 0

\* C10: for every buffer, the highest layer reached from Class(buf) and the
\* bytes bin(update_auto_fields=False) returns are the same whether upper
\* layers are left lazy, instantiated one by one on access or instantiated
\* by dissect_full(); instantiating a lazy upper layer sets neither
\* header_changed nor body_changed on any layer
C10_LazyEquivalence ==
    Untouched =>
        /\ bin(heap, 1, FALSE).r = bin(Fresh, 1, FALSE).r
        /\ Highest(heap) = Highest(Fresh)
        /\ last.op \in {"upper_layer", "dissect_full", "highest_layer"}
              => \A j \in Ids : ~heap[j].header_changed /\ ~heap[j].body_changed

\* C10 fails for an upper layer that cannot be dissected: once it is
\* instantiated its bytes are lost, and bin() returns others than before
C10_BytesLost ==
    /\ Untouched /\ last.op = "upper_layer" /\ last.id = 1
    /\ Len(heap) = 2 /\ heap[2].dissect_error
    /\ bin(Fresh, 1, FALSE).r = orig
    /\ bin(heap, 1, FALSE).r # orig

(***************************************************************************)
(* Dispatch to upper layers and errors of dissection.                      *)
(***************************************************************************)
\* the buffer packet j was constructed from, while nothing was written:
\* packet 1 from orig, the handler of an IP packet 1 from the bytes behind
\* the IP header (NoneB: not known)
ParsedBuf(j) ==
    IF orig = NoneB \/ nwrites # 0 THEN NoneB
    ELSE IF j = 1 THEN orig
    ELSE IF heap[j].lower_layer = 1 /\ heap[1].cls = "IP" THEN SliceFrom(orig, 9)
    ELSE NoneB

\* _dissect of cls dispatches on a discriminator of buf that is not
\* registered for cls
Unregistered(cls, buf) ==
    CASE cls = "UDP" -> Len(buf) >= 4 /\ UDP_htype(buf) = -1
      [] cls = "IP" -> Len(buf) >= 1 /\ buf[1] \notin HandlerIds("IP")
      [] OTHER -> FALSE

\* C11: a packet dissected with a discriminator that is not registered for
\* its class has no dissect_error, the raw remaining bytes as body, and
\* neither an upper layer nor lazy handler data (the constructor raises
\* nothing: it has no exceptional result)
C11_HandlerAbsence ==
    \A j \in Ids :
        (ParsedBuf(j) # NoneB /\ Unregistered(heap[j].cls, ParsedBuf(j))) =>
            /\ ~heap[j].dissect_error
            /\ BodyRaw(heap[j])
            /\ heap[j].body_bytes = SliceFrom(ParsedBuf(j), heap[j].header_len)
            /\ heap[j].attrs = NoAttrs

\* a UDP packet made from a buffer whose two ports are not registered
C11_Witness ==
    /\ last.op = "init" /\ heap[1].cls = "UDP"
    /\ orig = UDPHeader(1, 2, 77, 5) \o <<9>>
    /\ Unregistered("UDP", orig)
    /\ heap[1].body_bytes = <<9>>

\* the ports of the dispatch specification: registered for DNS (53, 5353),
\* registered for NTP (123), not registered (1, 9999)
Ports == {1, 53, 123, 5353, 9999}

\* UDP datagrams of every pair of these ports, without and with a payload
PortBufs ==
    { UDPHeader(s, d, 8 + Len(b), 0) \o b :
          s \in Ports, d \in Ports, b \in {<<>>, <<1, 2>>} }

InitPorts ==
    \E b \in PortBufs :
        /\ heap = Construct(<<>>, FromBytes("UDP", b)).h
        /\ orig = b
        /\ steps = 0
        /\ last = [op |-> "init", id |-> 0, arg |-> "", wr |-> {}, chg |-> {},
                   upd |-> {}, pre |-> <<>>]
        /\ ret = NoneB
        /\ nwrites = 0
        /\ since = NoWrite
        /\ wr = {}

\* reads of a dissected datagram: its fields, its body, its upper layer
NextPorts ==
    \/ GetField
    \/ GetBodyBytes
    \/ GetUpperLayer
    \/ DissectFull
    \/ GetHighestLayer

SpecPorts == InitPorts /\ [][NextPorts]_vars

\* the class of the upper layer of p, lazy or instantiated (NoneC: raw body)
UpperClass(h, p) ==
    IF HasLazy(p) THEN p.lazy_handler_data.clz
    ELSE IF p.bodytypename # NoneC THEN h[BodyAttr(p)].cls
    ELSE NoneC

\* C12: the upper class of a dissected UDP datagram with a payload is the
\* class registered for the source port if that port is registered, else
\* the class registered for the destination port if that one is, else the
\* body stays raw; for two registered ports of different classes the class
\* of the source port is chosen (without a payload the body is raw, empty)
C12_PortDispatch ==
    \A j \in Ids :
        (heap[j].cls = "UDP" /\ ParsedBuf(j) # NoneB /\ Len(ParsedBuf(j)) >= 8) =>
            LET sport == BytesToInt(Slice(ParsedBuf(j), 0, 2))
                dport == BytesToInt(Slice(ParsedBuf(j), 2, 4))
                upper == UpperClass(heap, heap[j])
            IN  IF Len(ParsedBuf(j)) = 8
                THEN BodyRaw(heap[j]) /\ heap[j].body_bytes = <<>>
                ELSE /\ sport \in HandlerIds("UDP")
                          => upper = HandlerClass("UDP", sport)
                     /\ (sport \notin HandlerIds("UDP") /\ dport \in HandlerIds("UDP"))
                          => upper = HandlerClass("UDP", dport)
                     /\ (sport \notin HandlerIds("UDP") /\ dport \notin HandlerIds("UDP"))
                          => /\ BodyRaw(heap[j])
                             /\ heap[j].body_bytes = SliceFrom(ParsedBuf(j), 8)

\* a datagram from the NTP port to the DNS port whose upper layer was
\* instantiated: it is an NTP packet
C12_Witness ==
    /\ orig = UDPHeader(123, 53, 10, 0) \o <<1, 2>>
    /\ last.op = "upper_layer" /\ last.id = 1
    /\ Len(heap) = 2 /\ heap[2].cls = "NTP" /\ heap[2].lower_layer = 1
    /\ HandlerClass("UDP", 53) = "DNS"

\* _dissect of packet 1 raised on the buffer the packet was made from
DissectRaised ==
    /\ orig # NoneB
    /\ dissect(<<MetaPacket_new(heap[1].cls)>>, 1, orig).x

\* C13: when _dissect raises on buf the constructor raises nothing and sets
\* dissect_error, and the packet keeps the header bytes and the remaining
\* buffer as raw body: bin(update_auto_fields=False) returns every byte of
\* buf while nothing is written
C13_MalformedKeepsBytes ==
    DissectRaised =>
        /\ heap[1].dissect_error
        /\ (nwrites = 0 /\ last.op = "bin" /\ last.id = 1 /\ last.arg = "F")
              => ret = orig

\* C13 fails: a UDP buffer too short for the ports comes back from bin() as
\* the eight header bytes of the class defaults
C13_BytesLost ==
    /\ DissectRaised /\ heap[1].dissect_error
    /\ heap[1].cls = "UDP" /\ orig = <<0, 53, 0>>
    /\ nwrites = 0 /\ steps = 1
    /\ last.op = "bin" /\ last.id = 1 /\ last.arg = "F"
    /\ ret = ClassCached("UDP")
    /\ ret # orig

\* packet 1 was made from a buffer with lazy handler data whose class
\* raises in _dissect on that data, and nothing was written since
UpperFails ==
    /\ Untouched
    /\ HasLazy(Fresh[1])
    /\ dissect(<<MetaPacket_new(Fresh[1].lazy_handler_data.clz)>>, 1,
               Fresh[1].lazy_handler_data.buf).x

\* C14: when the class selected for the upper layer fails to dissect the
\* remaining bytes, then once the upper layer is asked for the body of the
\* lower layer is those bytes, raw, with no upper layer attached, and its
\* bin() returns its header followed by them
C14_UpperFailureDemoted ==
    (UpperFails /\ ~HasLazy(heap[1])) =>
        /\ BodyRaw(heap[1])
        /\ heap[1].body_bytes = Fresh[1].lazy_handler_data.buf
        /\ bin(heap, 1, FALSE).r
              = Fresh[1].header_cached \o Fresh[1].lazy_handler_data.buf

\* C14 fails: the handler's constructor absorbs what _dissect raises, so
\* the except branch of __getattr__ is not taken and the failed handler is
\* attached, with the header of the class defaults for the bytes
C14_FailedUpperAttached ==
    /\ UpperFails
    /\ last.op = "upper_layer" /\ last.id = 1
    /\ BodyAttached(heap[1])
    /\ heap[BodyAttr(heap[1])].dissect_error
    /\ bin(heap, 1, FALSE).r
          = Fresh[1].header_cached \o ClassCached(heap[BodyAttr(heap[1])].cls)

(***************************************************************************)
(* Errors of packing and of construction.                                  *)
(***************************************************************************)
\* this step is bin() called on a packet whose changed header holds a value
\* that does not fit its format: _pack_header returns None
BinPackFails ==
    /\ last'.op = "bin" /\ steps' = steps + 1
    /\ last'.id \in Ids
    /\ heap[last'.id].header_changed
    /\ ~pack_header(heap[last'.id]).x
    /\ pack_header(heap[last'.id]).r = NoneB
    /\ ~bin_body(heap, last'.id, last'.arg = "T").x

\* C15: when a header field holds a value that does not fit its format,
\* bin() returns None instead of raising and leaves header_changed and the
\* header cache of that layer as they were before the call
C15_PackFailureReturnsNone ==
    [][ BinPackFails =>
          /\ ret' = NoneB
          /\ heap'[last'.id].header_changed = heap[last'.id].header_changed
          /\ heap'[last'.id].header_cached = heap[last'.id].header_cached ]_vars

\* C15 fails: sport = 70000 was assigned and bin(update_auto_fields=False)
\* called on that packet raised, header_tmp + body_tmp being None + bytes,
\* after _reset_changed() had cleared header_changed
C15_BinRaises ==
    /\ last.op = "bin" /\ last.arg = "F" /\ last.id = since.id
    /\ since.f = "sport" /\ since.v = 70000 /\ since.ok /\ since.ops = <<"binF">>
    /\ heap[last.id].vals["sport"] = 70000
    /\ ret = ExcB
    /\ ~heap[last.id].header_changed

\* the keyword arguments of the construction specification: every subset
\* of the fields of UDP, a name that is no field, and Radiotap's version
UDPKw == << <<"sport", 1>>, <<"dport", 53>>, <<"ulen", 9>>, <<"sum", 7>> >>

KwInputs ==
    { FromKw("UDP", SelectSeq(UDPKw, LAMBDA e : e[1] \in S))
          : S \in SUBSET FieldSet("UDP") }
    \cup { FromKw("UDP", <<<<"foo", 1>>>>),
           FromKw("UDP", <<<<"sport", 1>>, <<"foo", 1>>>>),
           FromKw("Radiotap", <<>>),
           FromKw("Radiotap", <<<<"version", 1>>>>) }

\* Class(**kw): the heap holds the packet, or nothing when the constructor
\* raised; the class and the keywords are recorded in last.arg and since.v
InitKw ==
    \E c \in KwInputs :
        /\ heap = Construct(<<>>, c).h
        /\ orig = NoneB
        /\ steps = 0
        /\ last = [op |-> "init", id |-> 0, arg |-> c.cls, wr |-> {}, chg |-> {},
                   upd |-> {}, pre |-> <<>>]
        /\ ret = NoneB
        /\ nwrites = 0
        /\ since = [id |-> 1, f |-> "kw", v |-> c.kw, ok |-> TRUE, ops |-> <<>>]
        /\ wr = {}

\* reads of the constructed packet
NextKw ==
    \/ GetField
    \/ GetHeaderBytes
    \/ GetLen
    \/ GetHeaderLen

SpecKw == InitKw /\ [][NextKw]_vars

\* the value the keywords kw give field f, or its schema default
KwValue(cls, kw, f) ==
    IF \E k \in 1..Len(kw) : kw[k][1] = f
    THEN kw[CHOOSE k \in 1..Len(kw) : kw[k][1] = f][2]
    ELSE Field(cls, f).def

\* the class constructed and its keywords, in the construction specification
KwClass == IF Len(heap) = 0 THEN "UDP" ELSE heap[1].cls

\* C16: Class(f1=v1, ...) sets exactly the named schema fields to the
\* given values and leaves the others at their schema defaults; with a
\* keyword that is no field name of the schema no packet is produced
C16_KeywordConstruction ==
    since.f = "kw" =>
        IF \E k \in 1..Len(since.v) : since.v[k][1] \notin FieldSet(KwClass)
        THEN Len(heap) = 0
        ELSE /\ Len(heap) = 1
             /\ \A f \in FieldSet(KwClass) :
                    heap[1].vals[f] = KwValue(KwClass, since.v, f)

\* C16 fails: UDP(foo=1) is constructed, foo being an attribute of the
\* instance next to the fields at their defaults, which read as such
C16_UnknownAccepted ==
    /\ since.f = "kw" /\ since.v = <<<<"foo", 1>>>>
    /\ Len(heap) = 1 /\ heap[1].cls = "UDP"
    /\ heap[1].attrs = ("foo" :> 1)
    /\ last.op = "getfield"
    /\ \A f \in FieldSet("UDP") : heap[1].vals[f] = Field("UDP", f).def

\* the part of C16 that holds: the named schema fields have the given
\* values, all others their defaults
C16_NamedFieldsSet ==
    (since.f = "kw" /\ Len(heap) = 1) =>
        \A f \in FieldSet(heap[1].cls) :
            heap[1].vals[f] = KwValue(heap[1].cls, since.v, f)

(***************************************************************************)
(* Class creation: MetaPacket.__new__ applied to a __hdr__.  A header      *)
(* entry is [name, fmt, def], fmt being NoFmt for None and def a value     *)
(* with its type: [t |-> "int" | "bytes" | "None" | "tl" | "other", v].    *)
(***************************************************************************)
\* names of methods of Packet that a protocol class inherits
EngineMethods == {"bin", "dissect_full", "hexdump", "direction", "reverse_address"}

\* "hdr[1] is not None or (hdr[2] is None or type(hdr[2]) == bytes)"
IsSimple(hd) == hd.fmt # NoFmt \/ hd.def.t = "None" \/ hd.def.t = "bytes"

\* what the loop appends to header_fmt for one entry: the format of an
\* active simple field, "%ds" for a dynamic one, "0s" for whatever else
HdrFormat(hd) ==
    IF ~IsSimple(hd) THEN <<FmtS(0)>>
    ELSE IF hd.def.t = "None" THEN <<>>
    ELSE IF hd.fmt = NoFmt THEN <<FmtS(Len(hd.def.v))>>
    ELSE <<hd.fmt>>

\* what it appends to t._header_cached
HdrCached(hd) ==
    IF ~IsSimple(hd) THEN << <<>> >>
    ELSE IF hd.def.t = "None" THEN <<>>
    ELSE <<hd.def.v>>

RECURSIVE HdrsFormat(_)
HdrsFormat(hdrs) ==
    IF Len(hdrs) = 0 THEN <<>> ELSE HdrFormat(hdrs[1]) \o HdrsFormat(Tail(hdrs))

RECURSIVE HdrsCached(_)
HdrsCached(hdrs) ==
    IF Len(hdrs) = 0 THEN <<>> ELSE HdrCached(hdrs[1]) \o HdrsCached(Tail(hdrs))

\* MetaPacket.__new__(cls, clsname, clsbases, {"__hdr__": hdrs}): the class
\* attributes, ok = FALSE when it raises (struct.error of the pack of the
\* defaults; nothing else in it raises for these entries).  setattr
\* replaces an attribute of the same name: a later entry the property of an
\* earlier one, a property an inherited method.
MetaPacket_build(hdrs) ==
    LET names == {hdrs[k].name : k \in 1..Len(hdrs)}
        packed == StructPack(HdrsFormat(hdrs), HdrsCached(hdrs))
    IN  [ ok                 |-> packed # NoneB,
          header_field_names |-> [k \in 1..Len(hdrs) |-> hdrs[k].name],
          header_format      |-> HdrsFormat(hdrs),
          header_len         |-> StructSize(HdrsFormat(hdrs)),
          header_cached      |-> packed,
          properties         |-> names,
          methods            |-> EngineMethods \ names,
          header_fields_dyn  |-> {hdrs[k].name : k \in {n \in 1..Len(hdrs) :
                                                        ~IsSimple(hdrs[n])}} ]

IntDef(v) == [t |-> "int", v |-> v]

\* the __hdr__ declared: two well-formed ones, one whose default does not
\* fit its format, and the three misuses
Schemas ==
    { << [name |-> "sport", fmt |-> FmtH, def |-> IntDef(1)],
         [name |-> "dport", fmt |-> FmtH, def |-> IntDef(2)] >>,
      << [name |-> "len", fmt |-> FmtB, def |-> IntDef(4)],
         [name |-> "opts", fmt |-> NoFmt, def |-> [t |-> "tl", v |-> <<>>]],
         [name |-> "name", fmt |-> NoFmt, def |-> [t |-> "bytes", v |-> <<1, 2>>]] >>,
      << [name |-> "ttl", fmt |-> FmtB, def |-> IntDef(500)] >>,
      << [name |-> "sport", fmt |-> FmtH, def |-> IntDef(1)],
         [name |-> "sport", fmt |-> FmtB, def |-> IntDef(2)] >>,
      << [name |-> "bin", fmt |-> FmtH, def |-> IntDef(1)] >>,
      << [name |-> "opts", fmt |-> NoFmt, def |-> IntDef(5)] >> }

\* in this specification the heap holds the classes created so far
InitSchema ==
    /\ heap = <<>>
    /\ orig = NoneB
    /\ steps = 0
    /\ last = [op |-> "init", id |-> 0, arg |-> "", wr |-> {}, chg |-> {},
               upd |-> {}, pre |-> <<>>]
    /\ ret = NoneB
    /\ nwrites = 0
    /\ since = NoWrite
    /\ wr = {}

\* class X(Packet): __hdr__ = sc
DeclareClass ==
    /\ steps < MaxSteps
    /\ \E sc \in Schemas :
          \E t \in {MetaPacket_build(sc)} :
              /\ heap' = IF t.ok THEN Append(heap, t) ELSE heap
              /\ ret' = IF t.ok THEN NoneB ELSE ExcB
              /\ steps' = steps + 1
              /\ last' = [last EXCEPT !.op = "class"]
              /\ since' = [id |-> 0, f |-> "class", v |-> sc, ok |-> t.ok,
                           ops |-> <<>>]
              /\ UNCHANGED <<orig, nwrites, wr>>

NextSchema == DeclareClass

SpecSchema == InitSchema /\ [][NextSchema]_vars

\* the misuses of a __hdr__: a duplicate name, the name of an engine
\* method, a field without format whose default is neither None, bytes nor
\* a TriggerList class
Misuse(hdrs) ==
    \/ \E k, n \in 1..Len(hdrs) : k # n /\ hdrs[k].name = hdrs[n].name
    \/ \E k \in 1..Len(hdrs) : hdrs[k].name \in EngineMethods
    \/ \E k \in 1..Len(hdrs) :
          hdrs[k].fmt = NoFmt /\ hdrs[k].def.t \notin {"None", "bytes", "tl"}

\* C17: declaring a class whose __hdr__ has a duplicate name, the name of
\* an engine method or a field without format with a default that is
\* neither bytes nor a TriggerList class fails when the class is created
C17_SchemaMisuseRejected ==
    (last.op = "class" /\ Misuse(since.v)) => (ret = ExcB /\ ~since.ok)

\* C17 fails: all three classes are created; the one with the duplicate
\* name has both entries in its field names and format and one property
C17_MisuseAccepted ==
    /\ last.op = "class" /\ Misuse(since.v) /\ since.ok /\ ret = NoneB
    /\ heap[Len(heap)].header_field_names = <<"sport", "sport">>
    /\ heap[Len(heap)].header_len = 3
    /\ heap[Len(heap)].properties = {"sport"}
    /\ \E k \in 1..Len(heap) : "bin" \notin heap[k].methods
    /\ \E k \in 1..Len(heap) : heap[k].header_fields_dyn = {"opts"}
                                /\ heap[k].header_len = 0

(***************************************************************************)
(* Concatenation.                                                          *)
(***************************************************************************)
\* the classes of packet i and of the handlers attached above it
RECURSIVE ChainClasses(_, _)
ChainClasses(h, i) ==
    <<h[i].cls>> \o (IF h[i].bodytypename # NoneC /\ ~HasLazy(h[i])
                     THEN ChainClasses(h, BodyAttr(h[i])) ELSE <<>>)

\* this step is A + B, A being last'.id and B the packet constructed for it
AddStep == last'.op = "add" /\ steps' = steps + 1

\* C18: A + B instantiates every lazy layer of A and attaches B above A's
\* previous highest layer T: T.upper_layer is B, B.lower_layer is T, B is
\* reachable from A by the attributes named after the classes, the layers
\* of A are those A had followed by those of B, A.highest_layer is B's
\* highest layer and B.lowest_layer is A's lowest layer
C18_Concatenation ==
    [][ AddStep =>
          LET A == last'.id
              B == Len(heap) + 1
              T == heap'[B].lower_layer
          IN  /\ \A j \in UpChain(heap', A) : ~HasLazy(heap'[j])
              /\ B \in UpChain(heap', A)
              /\ T \in UpChain(heap', A)
              /\ get_bodyhandler(heap', T).r = B
              /\ ChainClasses(heap', A)
                    = ChainClasses(dissect_full(heap, A), A) \o ChainClasses(heap', B)
              /\ highest_layer(heap', A).r = highest_layer(heap', B).r
              /\ lowest_layer(heap', B) = lowest_layer(heap', A) ]_vars

\* an IP packet with a lazy UDP layer got a packet added: the UDP layer is
\* instantiated (packet 3) and carries the added packet (packet 2)
C18_Witness ==
    /\ last.op = "add" /\ last.id = 1 /\ steps = 1
    /\ heap[1].cls = "IP" /\ orig # NoneB
    /\ Len(heap) = 3
    /\ heap[3].cls = "UDP" /\ heap[3].lower_layer = 1
    /\ heap[2].lower_layer = 3
    /\ BodyAttr(heap[3]) = 2

(***************************************************************************)
(* Associativity of concatenation: three packets are constructed, then     *)
(* concatenated with __add__ in either order.                              *)
(***************************************************************************)
\* the operands A, B and C: built from keywords and parsed from bytes,
\* with and without lazy upper layers
AssocA ==
    { FromKw("IP", <<<<"src", AddrA>>, <<"dst", AddrB>>>>),
      FromKw("UDP", <<>>),
      FromBytes("IP", IPHeader(17, AddrA, AddrB) \o UDPHeader(53, 9999, 10, 0) \o <<1, 2>>),
      FromBytes("IP", IPHeader(17, AddrA, AddrB) \o UDPHeader(1, 2, 77, 5) \o <<9>>),
      FromBytes("IP", IPHeader(17, AddrA, AddrB)),
      FromBytes("UDP", UDPHeader(53, 2, 8, 0)) }

AssocB ==
    { FromKw("UDP", <<<<"sport", 1>>>>),
      FromKw("UDP", <<>>),
      FromBytes("UDP", UDPHeader(53, 9999, 10, 0) \o <<1, 2>>),
      FromBytes("UDP", UDPHeader(1, 2, 77, 5) \o <<9>>),
      FromBytes("IP", IPHeader(17, AddrA, AddrB) \o UDPHeader(53, 2, 8, 0)) }

AssocC ==
    { FromKw("DNS", <<>>),
      FromKw("UDP", <<<<"sport", 1>>>>),
      FromBytes("UDP", UDPHeader(1, 53, 9, 5) \o <<1>>),
      FromBytes("UDP", UDPHeader(1, 2, 77, 5) \o <<9>>) }

\* A, B, C = Class(...), Class(...), Class(...): packets 1, 2 and 3
Built(abc) ==
    Construct(Construct(Construct(<<>>, abc[1]).h, abc[2]).h, abc[3]).h

InitAssoc ==
    \E a \in AssocA : \E b \in AssocB : \E c \in AssocC :
        /\ heap = Built(<<a, b, c>>)
        /\ orig = NoneB
        /\ steps = 0
        /\ last = [op |-> "init", id |-> 0, arg |-> "", wr |-> {}, chg |-> {},
                   upd |-> {}, pre |-> <<>>]
        /\ ret = NoneB
        /\ nwrites = 0
        /\ since = [id |-> 0, f |-> "abc", v |-> <<a, b, c>>, ok |-> TRUE,
                    ops |-> <<>>]
        /\ wr = {}

\* x + y for two of the three packets, x below no other packet and y the
\* next operand not yet added: A + B, B + C, (A + B) + C, A + (B + C);
\* last.arg records "A+B" for 1 + 2 and "+C" for an addition of packet 3
Concat ==
    \E i \in {1, 2} :
      \E j \in {2, 3} :
        /\ steps < MaxSteps
        /\ since.f = "abc"
        /\ i < j
        /\ heap[i].lower_layer = 0
        /\ heap[j].lower_layer = 0
        /\ (i = 1 /\ j = 3) => heap[2].lower_layer # 0
        /\ Op("add", i, IF j = 2 THEN "A+B" ELSE "+C", Packet_add(heap, i, j), NoneB)
        /\ UNCHANGED <<nwrites, since, wr>>

NextAssoc == Concat

SpecAssoc == InitAssoc /\ [][NextAssoc]_vars

\* (A + B) + C and A + (B + C) computed from the operands
LeftFirst(abc) == Packet_add(Packet_add(Built(abc), 1, 2), 1, 3)
RightFirst(abc) == Packet_add(Packet_add(Built(abc), 2, 3), 1, 2)

\* all three operands are concatenated
AllAdded == since.f = "abc" /\ steps = 2

\* C19: once A, B and C are concatenated, in whichever order, the layers
\* above A are the layers of A, then those of B, then those of C, and the
\* layer chain, bin() and bin(update_auto_fields=False) of A are those of
\* (A + B) + C and of A + (B + C) alike
C19_Associativity ==
    AllAdded =>
        /\ ChainClasses(heap, 1)
              = ChainClasses(dissect_full(Built(since.v), 1), 1)
                \o ChainClasses(dissect_full(Built(since.v), 2), 2)
                \o ChainClasses(Built(since.v), 3)
        /\ ChainClasses(LeftFirst(since.v), 1) = ChainClasses(heap, 1)
        /\ ChainClasses(RightFirst(since.v), 1) = ChainClasses(heap, 1)
        /\ \A u \in BOOLEAN :
              /\ bin(LeftFirst(since.v), 1, u).r = bin(heap, 1, u).r
              /\ bin(RightFirst(since.v), 1, u).r = bin(heap, 1, u).r

\* A + (B + C) was computed, A and B parsed from bytes with upper layers
\* that the additions instantiated, and bin() returns bytes
C19_Witness ==
    /\ AllAdded
    /\ last.arg = "A+B"
    /\ since.v[1].buf # NoneB /\ since.v[2].buf # NoneB
    /\ Len(ChainClasses(heap, 1)) >= 5
    /\ IsBytes(bin(heap, 1, TRUE).r)
    /\ bin(heap, 1, TRUE).r = bin(LeftFirst(since.v), 1, TRUE).r

(***************************************************************************)
(* TriggerLists: the field flags of Radiotap, instantiated on access,      *)
(* dissected on the first change, packed again by bin().                   *)
(***************************************************************************)
RATE_MASK == 67108864

\* RADIO_FIELDS_MASKS with RADIO_FIELDS: the fields in order of appearance,
\* bit b standing for the mask 2^b, with (length, alignment)
RADIO_FIELDS ==
    << <<24, 8, 8>>, <<25, 1, 1>>, <<26, 1, 1>>, <<27, 4, 2>>,
       <<28, 2, 1>>, <<29, 1, 1>>, <<30, 1, 1>>, <<31, 2, 2>>,
       <<16, 2, 2>>, <<17, 2, 2>>, <<18, 1, 1>>, <<19, 1, 1>>,
       <<20, 1, 1>>, <<21, 1, 1>>, <<22, 2, 2>>,
       <<11, 3, 1>>, <<12, 8, 4>>, <<13, 12, 2>> >>

\* mask & v != 0 for the mask 2^b, 11 <= b <= 31
HasBit(v, b) == ((v \div (2 ^ (b - 1))) \div 2) % 2 = 1

\* the size of a field at offset off: enlarged by the alignment
AlignedSize(fld, off) ==
    fld[2] + (IF off % fld[3] # 0 THEN fld[3] - (off % fld[3]) ELSE 0)

\* the loop of _parse_flags from the k-th mask on: [r |-> the elements
\* (mask, value), x |-> struct.error, raised when the value of FLAGS_MASK
\* is not one byte]
RECURSIVE parse_flags_from(_, _, _, _, _)
parse_flags_from(present, buf, k, off, flags) ==
    IF k > Len(RADIO_FIELDS) THEN [r |-> flags, x |-> FALSE]
    ELSE IF ~HasBit(present, RADIO_FIELDS[k][1])
    THEN parse_flags_from(present, buf, k + 1, off, flags)
    ELSE IF RADIO_FIELDS[k][1] = 25
            /\ Len(Slice(buf, off, off + AlignedSize(RADIO_FIELDS[k], off))) # 1
    THEN [r |-> <<>>, x |-> TRUE]
    ELSE parse_flags_from(present, buf, k + 1,
             off + AlignedSize(RADIO_FIELDS[k], off),
             Append(flags, << 2 ^ RADIO_FIELDS[k][1],
                              Slice(buf, off, off + AlignedSize(RADIO_FIELDS[k], off)) >>))

\* Radiotap._parse_flags
parse_flags(p, buf) == parse_flags_from(p.vals["present_flags"], buf, 1, 0, <<>>)

\* the getter of a TriggerList field: the list is instantiated
getfield_triggerlist(p, f) ==
    IF p.vals[f].k = "cell"
    THEN [p EXCEPT !.vals[f] = TriggerList(p.vals[f].cb, p.vals[f].bts)]
    ELSE p

\* TriggerList._lazy_dissect: [p, x]
lazy_dissect(p, f) ==
    The({ IF u.x \/ ~u.p.vals[f].cb THEN u
          ELSE The({ IF c.x THEN [p |-> u.p, x |-> TRUE]
                     ELSE [p |-> [u.p EXCEPT !.vals[f].cb = FALSE,
                                             !.vals[f].items = @ \o c.r],
                           x |-> FALSE]
                   : c \in {parse_flags(u.p, u.p.vals[f].bts)} })
        : u \in {unpack_if_needed(p)} })

\* TriggerList._notify_change
notify_change(p, f) ==
    [p EXCEPT !.header_changed = TRUE,
              !.header_format_changed = TRUE,
              !.vals[f].bts = NoneB]

\* TriggerList.append(v): [p, x]
TriggerList_append(p, f, v) ==
    The({ IF d.x THEN d
          ELSE [p |-> notify_change([d.p EXCEPT !.vals[f].items = Append(@, v)], f),
                x |-> FALSE]
        : d \in {lazy_dissect(p, f)} })

\* the list without its element at position pos (from 1)
Without(items, pos) ==
    SubSeq(items, 1, pos - 1) \o SubSeq(items, pos + 1, Len(items))

\* TriggerList.__delitem__(k) for an int k: [p, x], x on IndexError too
TriggerList_delitem(p, f, k) ==
    The({ IF d.x THEN d
          ELSE IF k >= Len(d.p.vals[f].items) \/ k < -Len(d.p.vals[f].items)
          THEN [p |-> d.p, x |-> TRUE]
          ELSE [p |-> notify_change(
                        [d.p EXCEPT !.vals[f].items =
                            Without(@, IF k < 0 THEN Len(@) + k + 1 ELSE k + 1)], f),
                x |-> FALSE]
        : d \in {lazy_dissect(p, f)} })

\* Radiotap frames: the buffers above, one with flags and rate, one that
\* announces flags and XChannel (a field _parse_flags has no size for), one
\* that announces flags its header has no room for
TLBufs ==
    RadiotapBufs
    \cup { <<0, 0, 10, 0,  6, 0, 0, 0,  0, 12>> \o <<1, 2>>,
           <<0, 0, 20, 0,  2, 0, 4, 0,  0,  0, 0, 0,  1, 2, 3, 4, 5, 6, 7, 8>>
               \o <<1, 2>>,
           <<0, 0, 8, 0,   2, 0, 0, 0>> \o <<1, 2>> }

TLInputs ==
    {FromBytes("Radiotap", b) : b \in TLBufs}
    \cup {FromKw("Radiotap", <<>>), FromKw("Radiotap", <<<<"version", 1>>>>)}

\* the elements appended to flags
FlagItems == { <<RATE_MASK, <<2>>>>, <<TSFT_MASK, <<1, 2, 3, 4, 5, 6, 7, 8>>>> }

InitTL ==
    \E c \in TLInputs :
        /\ heap = Construct(<<>>, c).h
        /\ orig = c.buf
        /\ steps = 0
        /\ last = [op |-> "init", id |-> 0, arg |-> "", wr |-> {}, chg |-> {},
                   upd |-> {}, pre |-> <<>>]
        /\ ret = NoneB
        /\ nwrites = 0
        /\ since = NoWrite
        /\ wr = {}

\* packet.flags.append(v); since records the edit and, in v, what
\* bin(update_auto_fields=False) returns in the state it is called in
FlagsAppend ==
    \E i \in Ids :
        /\ steps < MaxSteps
        /\ heap[i].cls = "Radiotap"
        /\ \E v \in FlagItems :
             \E a \in {TriggerList_append(getfield_triggerlist(heap[i], "flags"),
                                          "flags", v)} :
               /\ Op("flags_append", i, "", [heap EXCEPT ![i] = a.p],
                     IF a.x THEN ExcB ELSE NoneB)
               /\ nwrites' = Min(nwrites + 1, 2)
               /\ since' = [id |-> i, f |-> "flags", v |-> bin(heap, i, FALSE).r,
                            ok |-> ~a.x, ops |-> <<>>]
               /\ wr' = wr \cup {i}

\* del packet.flags[-1]
FlagsDelLast ==
    \E i \in Ids :
        /\ steps < MaxSteps
        /\ heap[i].cls = "Radiotap"
        /\ \E a \in {TriggerList_delitem(getfield_triggerlist(heap[i], "flags"),
                                         "flags", -1)} :
               /\ Op("flags_del", i, "", [heap EXCEPT ![i] = a.p],
                     IF a.x THEN ExcB ELSE NoneB)
               /\ Read("del")
               /\ wr' = wr \cup {i}

NextTL ==
    \/ FlagsAppend
    \/ FlagsDelLast
    \/ GetField
    \/ SetField
    \/ GetHeaderBytes
    \/ Bin

SpecTL == InitTL /\ [][NextTL]_vars

\* an element was appended to flags and then removed, nothing in between
AppendedThenRemoved ==
    /\ since.f = "flags" /\ since.ok /\ since.ops = <<"del">>
    /\ last.op = "flags_del" /\ last.id = since.id
    /\ ret # ExcB

\* C20: after an element is appended to the trigger list of a packet and
\* that element is removed again, bin(update_auto_fields=False) returns
\* what it returned before the two edits
C20_TriggerListIdempotent ==
    AppendedThenRemoved => bin(heap, since.id, FALSE).r = since.v

\* a frame parsed from bytes that announces flags and XChannel: after the
\* two edits of the list never materialized before, bin() returns bytes
\* that differ from those it returned before
C20_FieldBytesLost ==
    /\ AppendedThenRemoved
    /\ steps = 2
    /\ orig # NoneB
    /\ HasBit(heap[since.id].vals["present_flags"], 10)
    /\ IsBytes(since.v)
    /\ IsBytes(bin(heap, since.id, FALSE).r)
    /\ Len(bin(heap, since.id, FALSE).r) < Len(since.v)

\* the field flags kept its bytes over the two edits: frames whose flags
\* area holds exactly the fields _parse_flags knows
C20_KnownFieldsKept ==
    /\ AppendedThenRemoved
    /\ orig = <<0, 0, 10, 0,  6, 0, 0, 0,  0, 12>> \o <<1, 2>>
    /\ bin(heap, since.id, FALSE).r = since.v

(***************************************************************************)
(* Activation: a simple field is set to None and back.                     *)
(***************************************************************************)
ActInputs ==
    {FromBytes("UDP", b) : b \in UDPBufs}
    \cup {FromBytes("Radiotap", b) : b \in RadiotapBufs}
    \cup {FromKw("UDP", <<>>), FromKw("UDP", <<<<"sport", 1>>, <<"sum", 7>>>>),
          FromKw("Radiotap", <<>>), FromKw("DNS", <<>>)}

InitAct ==
    \E c \in ActInputs :
        /\ heap = Construct(<<>>, c).h
        /\ orig = c.buf
        /\ steps = 0
        /\ last = [op |-> "init", id |-> 0, arg |-> "", wr |-> {}, chg |-> {},
                   upd |-> {}, pre |-> <<>>]
        /\ ret = NoneB
        /\ nwrites = 0
        /\ since = NoWrite
        /\ wr = {}

\* the simple fields of a class
SimpleFields(cls) == {g \in FieldSet(cls) : ~Field(cls, g).tl}

\* x = packet.f; packet.f = None, for an active field; since records in v
\* the value x read, and what header_bytes and
\* bin(update_auto_fields=False) return in the state it is called in
Deactivate ==
    \E i \in Ids :
        /\ steps < MaxSteps
        /\ \E f \in {g \in SimpleFields(heap[i].cls) : heap[i].active[g]} :
             \E u \in {setfield_simple(heap[i], f, NoneOf(heap[i].cls, f))} :
               /\ Op("deactivate", i, f, [heap EXCEPT ![i] = u.p],
                     IF u.x THEN ExcB ELSE NoneB)
               /\ nwrites' = Min(nwrites + 1, 2)
               /\ since' = [id |-> i, f |-> f,
                            v |-> [prev |-> getfield_simple(heap[i], f).r,
                                   hdr |-> pack_header(heap[i]).r,
                                   bin |-> bin(heap, i, FALSE).r],
                            ok |-> ~u.x, ops |-> <<>>]
               /\ wr' = wr \cup {i}

\* packet.f = x, for the field set to None last
Reactivate ==
    \E i \in Ids :
        /\ steps < MaxSteps
        /\ last.op = "deactivate" /\ since.ok /\ since.id = i
        /\ \E u \in {setfield_simple(heap[i], since.f, since.v.prev)} :
               /\ Op("reactivate", i, since.f, [heap EXCEPT ![i] = u.p],
                     IF u.x THEN ExcB ELSE NoneB)
               /\ Read("react")
               /\ wr' = wr

NextAct ==
    \/ Deactivate
    \/ Reactivate
    \/ GetField
    \/ GetHeaderBytes
    \/ Bin

SpecAct == InitAct /\ [][NextAct]_vars

\* hdr without the bytes of field f of packet p, the inactive fields of p
\* being absent from hdr
WithoutField(p, f, hdr) ==
    LET names == header_field_names(p.cls)
        pos == CHOOSE k \in 1..Len(names) : names[k] = f
        before == SelectSeq(SubSeq(names, 1, pos - 1), LAMBDA g : p.active[g])
        off == StructSize([k \in 1..Len(before) |-> FieldFormat(p, before[k])])
    IN  Slice(hdr, 0, off) \o SliceFrom(hdr, off + p.format[f].n)

\* field f of the packet was set to None, and header_bytes gave bytes before
JustDeactivated ==
    /\ last.op = "deactivate" /\ since.ok /\ IsBytes(since.v.hdr)

\* ... and then to the value it had, and bin gave bytes before
JustReactivated ==
    /\ last.op = "reactivate" /\ since.ok /\ since.ops = <<"react">>
    /\ ret # ExcB /\ IsBytes(since.v.bin)

\* C21: after an active simple field is set to None, header_bytes and
\* bin(update_auto_fields=False) hold the header without the bytes of that
\* field; after it is set back to its previous value, the field is active
\* and bin(update_auto_fields=False) returns the bytes it returned before
\* the field was set to None
C21_ActivationRoundTrip ==
    /\ JustDeactivated =>
          /\ ~heap[since.id].active[since.f]
          /\ pack_header(heap[since.id]).r
                = WithoutField(heap[since.id], since.f, since.v.hdr)
          /\ Len(pack_header(heap[since.id]).r)
                = Len(since.v.hdr) - heap[since.id].format[since.f].n
          /\ IsBytes(since.v.bin) =>
                Len(bin(heap, since.id, FALSE).r)
                    = Len(since.v.bin) - heap[since.id].format[since.f].n
    /\ JustReactivated =>
          /\ heap[since.id].active[since.f]
          /\ bin(heap, since.id, FALSE).r = since.v.bin

\* a field of a packet parsed from bytes, never unpacked before, was set to
\* None and back, and bin returns the bytes the packet was parsed from
C21_Witness ==
    /\ JustReactivated
    /\ steps = 2
    /\ orig # NoneB /\ Len(orig) > 8
    /\ heap[since.id].cls = "UDP" /\ since.f = "dport"
    /\ bin(heap, since.id, FALSE).r = orig

\* the same for the packets built from keywords and those parsed from a
\* buffer that holds a whole header
C21_WholeHeaders ==
    (orig = NoneB \/ Len(orig) >= 8) => C21_ActivationRoundTrip

\* a UDP packet parsed from 5 bytes: a first read raised in _unpack, which
\* left the packet marked unpacked with the default values; the field set
\* to None and back, bin returns the default header, not the 5 bytes
C21_DefaultsSerialized ==
    /\ JustReactivated
    /\ orig = <<0, 53, 0, 5, 0>>
    /\ since.v.bin = orig
    /\ bin(heap, since.id, FALSE).r # since.v.bin
    /\ Len(bin(heap, since.id, FALSE).r) = 8

(***************************************************************************)
(* Directions: direction, direction_all and is_direction of two packets.   *)
(***************************************************************************)
DIR_SAME == 1
DIR_REV == 2
DIR_UNKNOWN == 4
DIR_NOT_IMPLEMENTED == 255

\* a & b for 0 <= a, b < 256
RECURSIVE BitAnd(_, _)
BitAnd(a, b) ==
    IF a = 0 \/ b = 0 THEN 0
    ELSE (a % 2) * (b % 2) + 2 * BitAnd(a \div 2, b \div 2)

\* a result of direction and direction_all: x is "" or the exception raised
DirRes(h, r, x) == [h |-> h, r |-> r, x |-> x]

\* direction that tests only self.sport == other.dport for DIR_REV: C22
\* fails
UDP_direction_cmp_sport(h, i, j) ==
    IF h[i].vals["sport"] = h[j].vals["sport"] /\ h[i].vals["dport"] = h[j].vals["dport"]
    THEN DirRes(h, 3, "")
    ELSE IF h[i].vals["sport"] = h[j].vals["dport"]
    THEN DirRes(h, DIR_REV, "")
    ELSE DirRes(h, DIR_UNKNOWN, "")

\* UDP.direction once the fields of both packets are read
UDP_direction_cmp(h, i, j) ==
    IF h[i].vals["sport"] = h[j].vals["sport"] /\ h[i].vals["dport"] = h[j].vals["dport"]
    THEN DirRes(h, 3, "")
    ELSE IF h[i].vals["sport"] = h[j].vals["dport"] /\ h[i].vals["dport"] = h[j].vals["sport"]
    THEN DirRes(h, DIR_REV, "")
    ELSE DirRes(h, DIR_UNKNOWN, "")

\* UDP.direction after self.sport is read: other.sport is an AttributeError
\* for None (j = 0) and for a packet without that field
UDP_direction_other(h, i, j) ==
    IF j = 0 THEN DirRes(h, 0, "AttributeError")
    ELSE IF "sport" \notin FieldSet(h[j].cls) THEN DirRes(h, 0, "AttributeError")
    ELSE The({ IF u.x THEN DirRes([h EXCEPT ![j] = u.p], 0, "Exception")
               ELSE UDP_direction_cmp([h EXCEPT ![j] = u.p], i, j)
             : u \in {unpack_if_needed(h[j])} })

\* UDP.direction
UDP_direction(h, i, j) ==
    The({ IF u.x THEN DirRes([h EXCEPT ![i] = u.p], 0, "Exception")
          ELSE UDP_direction_other([h EXCEPT ![i] = u.p], i, j)
        : u \in {unpack_if_needed(h[i])} })

\* direction: UDP's, or Packet's
direction(h, i, j) ==
    IF h[i].cls = "UDP" THEN UDP_direction(h, i, j)
    ELSE DirRes(h, DIR_NOT_IMPLEMENTED, "")

RECURSIVE direction_all(_, _, _)

\* the try block of direction_all, d being the result of self.direction:
\* without a body handler of self, or with other None, AttributeError is
\* raised and absorbed; one raised above is absorbed as well
direction_all_upper(d, i, j) ==
    The({ IF g.r = 0 \/ j = 0 THEN DirRes(g.h, d.r, "")
          ELSE The({ The({ IF up.x = "AttributeError" THEN DirRes(up.h, d.r, "")
                           ELSE IF up.x # "" THEN up
                           ELSE DirRes(up.h, BitAnd(d.r, up.r), "")
                         : up \in {direction_all(o.h, g.r, o.r)} })
                   : o \in {get_bodyhandler(g.h, j)} })
        : g \in {get_bodyhandler(d.h, i)} })

\* direction_all
direction_all(h, i, j) ==
    The({ IF d.x # "" THEN d ELSE direction_all_upper(d, i, j)
        : d \in {direction(h, i, j)} })

\* is_direction: [h, r |-> TRUE or FALSE, x]
is_direction(h, i, j, dir) ==
    The({ IF d.x # "" THEN d ELSE DirRes(d.h, BitAnd(d.r, dir) = dir, "")
        : d \in {direction_all(h, i, j)} })

\* the packets compared: UDP layers built from keywords, alone and below a
\* UDP or DNS layer, and UDP layers parsed from bytes
DirLowers ==
    { FromKw("UDP", <<<<"sport", 1>>, <<"dport", 2>>>>),
      FromKw("UDP", <<<<"sport", 2>>, <<"dport", 1>>>>),
      FromKw("UDP", <<<<"sport", 1>>, <<"dport", 1>>>>) }

DirUppers ==
    { FromKw(NoneC, <<>>),
      FromKw("UDP", <<<<"sport", 53>>, <<"dport", 9999>>>>),
      FromKw("UDP", <<<<"sport", 9999>>, <<"dport", 53>>>>),
      FromKw("DNS", <<>>) }

DirParsed ==
    { FromBytes("UDP", UDPHeader(53, 9999, 10, 0) \o <<1, 2>>),
      FromBytes("UDP", UDPHeader(9999, 53, 10, 0) \o <<1, 2>>),
      FromBytes("UDP", UDPHeader(1, 2, 77, 5) \o <<9>>),
      FromBytes("UDP", UDPHeader(2, 1, 8, 0)),
      FromBytes("UDP", <<0, 53, 0, 5, 0>>) }

DirChains ==
    {<<c, u>> : c \in DirLowers, u \in DirUppers}
    \cup {<<c, FromKw(NoneC, <<>>)>> : c \in DirParsed}

\* Class(...) or Class(...) + Upper(...), appended to the heap h
Chain(h, cu) ==
    IF cu[2].cls = NoneC THEN Construct(h, cu[1]).h
    ELSE The({ Packet_add(n.h, Len(h) + 1, n.r)
             : n \in {Construct(Construct(h, cu[1]).h, cu[2])} })

\* p is packet 1; since.id records q, the packet constructed after p
InitDir ==
    \E a \in DirChains : \E b \in DirChains :
        /\ heap = Chain(Chain(<<>>, a), b)
        /\ orig = NoneB
        /\ steps = 0
        /\ last = [op |-> "init", id |-> 0, arg |-> "", wr |-> {}, chg |-> {},
                   upd |-> {}, pre |-> <<>>]
        /\ ret = NoneB
        /\ nwrites = 0
        /\ since = [id |-> Len(Chain(<<>>, a)) + 1, f |-> "q", v |-> 0,
                    ok |-> TRUE, ops |-> <<>>]
        /\ wr = {}

\* the other of p and q
Other(i) == IF i = 1 THEN since.id ELSE 1

\* x.direction_all(y) for x, y among p and q; ret is the direction as one
\* byte, ExcB when it raised; last.arg records y
DirectionAll ==
    \E i \in {1, since.id} : \E j \in {1, since.id} :
        /\ steps < MaxSteps
        /\ since.f = "q"
        /\ \E d \in {direction_all(heap, i, j)} :
               /\ Op("direction_all", i, IF j = 1 THEN "p" ELSE "q", d.h,
                     IF d.x # "" THEN ExcB ELSE <<d.r>>)
               /\ UNCHANGED <<nwrites, since, wr>>

\* x.is_direction(y, want); ret is <<1>> for True, <<0>> for False; since.v
\* records want
IsDirection ==
    \E i \in {1, since.id} : \E j \in {1, since.id} :
        /\ steps < MaxSteps
        /\ since.f = "q"
        /\ \E want \in {DIR_SAME, DIR_REV, DIR_UNKNOWN, 3} :
             \E d \in {is_direction(heap, i, j, want)} :
               /\ Op("is_direction", i, IF j = 1 THEN "p" ELSE "q", d.h,
                     IF d.x # "" THEN ExcB ELSE IF d.r THEN <<1>> ELSE <<0>>)
               /\ since' = [since EXCEPT !.v = want]
               /\ UNCHANGED <<nwrites, wr>>

NextDir ==
    \/ DirectionAll
    \/ IsDirection

SpecDir == InitDir /\ [][NextDir]_vars

\* the packet the last call was given
LastOther == IF last.arg = "p" THEN 1 ELSE since.id

\* C22: when x.direction_all(y) returned, for x and y among two UDP layers,
\* it is DIR_REV exactly when y.direction_all(x), called next, is DIR_REV;
\* x.direction_all(x) contains DIR_SAME and x.is_direction(x, DIR_SAME) is
\* true; is_direction(y, want) is true exactly when
\* direction_all(y) & want == want
C22_DirectionSymmetry ==
    /\ (last.op = "direction_all" /\ ret # ExcB) =>
          /\ (ret = <<DIR_REV>>)
                <=> (direction_all(heap, LastOther, last.id).r = DIR_REV
                     /\ direction_all(heap, LastOther, last.id).x = "")
          /\ last.id = LastOther =>
                /\ BitAnd(ret[1], DIR_SAME) = DIR_SAME
                /\ is_direction(heap, last.id, last.id, DIR_SAME).r = TRUE
    /\ (last.op = "is_direction" /\ ret # ExcB) =>
          (ret = <<1>>) <=>
              (BitAnd(direction_all(heap, last.id, LastOther).r, since.v) = since.v)

\* p = UDP(sport=1, dport=2) + UDP(...) and q = UDP(sport=2, dport=1) with
\* or without an upper layer: p.direction_all(q) returned DIR_REV
C22_Witness ==
    /\ last.op = "direction_all" /\ last.id = 1 /\ last.arg = "q"
    /\ ret = <<DIR_REV>>
    /\ heap[1].bodytypename # NoneC
    /\ direction_all(heap, since.id, 1).r = DIR_REV

(***************************************************************************)
(* Frame check sequences of Radiotap frames.                               *)
(***************************************************************************)
\* the first 8 bytes of a frame: version, pad, len, present_flags
RtHead(version, len, present) == <<version, 0, len, 0, present, 0, 0, 0>>

\* frames with and without TSFT, with the FCS bit of the FLAGS byte set and
\* clear, with and without 802.11 bytes; version 16 and a TSFT starting
\* with 16 put bit 0x10 into the byte _dissect tests
FcsBufs ==
    { RtHead(0, 9, 2) \o <<16>> \o <<1, 2>> \o <<7, 7, 7, 7>>,
      RtHead(0, 9, 2) \o <<16>> \o <<7, 7, 7, 7>>,
      RtHead(16, 9, 2) \o <<16>> \o <<1, 2>> \o <<7, 7, 7, 7>>,
      RtHead(0, 9, 2) \o <<0>> \o <<1, 2, 3, 4, 5>>,
      RtHead(16, 9, 2) \o <<0>> \o <<1, 2, 3, 4, 5>>,
      RtHead(0, 17, 3) \o <<0, 2, 3, 4, 5, 6, 7, 8>> \o <<16>> \o <<1, 2>>
          \o <<7, 7, 7, 7>>,
      RtHead(0, 17, 3) \o <<16, 2, 3, 4, 5, 6, 7, 8>> \o <<16>> \o <<1, 2>>
          \o <<7, 7, 7, 7>>,
      RtHead(0, 17, 3) \o <<0, 2, 3, 4, 5, 6, 7, 8>> \o <<16>> \o <<7, 7, 7, 7>>,
      RtHead(0, 17, 3) \o <<16, 2, 3, 4, 5, 6, 7, 8>> \o <<0>> \o <<1, 2, 3, 4, 5>>,
      RtHead(0, 8, 0) \o <<1, 2, 3, 4, 5>> }

InitFcs ==
    \E b \in FcsBufs :
        /\ heap = Construct(<<>>, FromBytes("Radiotap", b)).h
        /\ orig = b
        /\ steps = 0
        /\ last = [op |-> "init", id |-> 0, arg |-> "", wr |-> {}, chg |-> {},
                   upd |-> {}, pre |-> <<>>]
        /\ ret = NoneB
        /\ nwrites = 0
        /\ since = NoWrite
        /\ wr = {}

NextFcs ==
    \/ GetField
    \/ GetBodyBytes
    \/ GetUpperLayer
    \/ GetHeaderBytes
    \/ Bin

SpecFcs == InitFcs /\ [][NextFcs]_vars

\* the header length a frame states, and the place of its FLAGS byte: the
\* first of the variable block, behind the 8 bytes of TSFT when present
StatedLen(buf) == BytesToIntLE(Slice(buf, 2, 4))
FlagsAt(buf) ==
    IF HasMask(BytesToInt(Slice(buf, 4, 8)), TSFT_MASK) THEN 16 ELSE 8

\* present_flags of the frame contain FLAGS and bit 0x10 of its FLAGS byte
\* is set
HasFcs(buf) ==
    /\ Len(buf) >= StatedLen(buf) + 4
    /\ HasMask(BytesToInt(Slice(buf, 4, 8)), FLAGS_MASK)
    /\ FlagsAt(buf) < StatedLen(buf)
    /\ HasMask(buf[FlagsAt(buf) + 1], 16)

\* the bytes the upper layer is given: those of the lazy handler, else the
\* raw body
GivenUp(p) ==
    IF HasLazy(p) THEN p.lazy_handler_data.buf
    ELSE IF p.body_bytes = NoneB THEN NoneB ELSE p.body_bytes

\* C23: a Radiotap frame whose present_flags contain FLAGS and whose FLAGS
\* byte has bit 0x10 set has, once dissected, its last 4 bytes as fcs and
\* the bytes between the header and those 4 as the bytes of its upper
\* layer, and bin() returns the frame
C23_FcsDetection ==
    (HasFcs(orig) /\ heap[1].cls = "Radiotap") =>
        /\ get_fcs(heap[1]) = SliceLast(orig, 4)
        /\ steps = 0 =>
              GivenUp(heap[1]) = SliceToLast(orig, StatedLen(orig), 4)
        /\ (last.op = "bin" /\ last.id = 1) => ret = orig

\* a frame of version 0 without TSFT whose FLAGS byte is 0x10: no fcs is
\* exposed, the 4 bytes are part of what the upper layer is given
C23_FcsMissed ==
    /\ orig = RtHead(0, 9, 2) \o <<16>> \o <<1, 2>> \o <<7, 7, 7, 7>>
    /\ HasFcs(orig)
    /\ last.op = "upper_layer" /\ last.id = 1 /\ steps = 1
    /\ get_fcs(heap[1]) = <<>>
    /\ Len(heap) = 2
    /\ bin(heap, 2, FALSE).r = <<1, 2, 7, 7, 7, 7>>

(***************************************************************************)
(* Assignments to body_bytes.                                              *)
(***************************************************************************)
\* this step is packet.body_bytes = v, packet being last'.id and v since'.v
SetBodyStep == last'.op = "set_body_bytes" /\ steps' = steps + 1

\* what is left of the assignment in the state after it, but for bin()
BodyBytesSet(h, i, v) ==
    /\ get_bodyhandler(h, i).r = 0
    /\ get_bodyhandler(h, i).h = h
    /\ ~HasLazy(h[i])
    /\ get_bodybytes(h, i).r = v
    /\ h[i].body_changed

\* bin(update_auto_fields=u) of packet i returns bytes: its header as it
\* is cached afterwards, then v, then tail
BinIs(h, i, u, v, tail) ==
    IsBytes(bin(h, i, u).r) =>
        bin(h, i, u).r = bin(h, i, u).h[i].header_cached \o v \o tail

\* C24 as stated: bin() is the header followed by v
C24_Original ==
    [][ SetBodyStep =>
          /\ BodyBytesSet(heap', last'.id, since'.v)
          /\ \A u \in BOOLEAN : BinIs(heap', last'.id, u, since'.v, <<>>)
          /\ \A j \in Ids : heap[j].lower_layer = last'.id =>
                                heap'[j].lower_layer = 0 ]_vars

\* C24 amended: packet.body_bytes = v on a packet with a raw, lazy or
\* attached body leaves no upper layer and no lazy handler data,
\* body_bytes reads back v, body_changed is true, a packet attached above
\* before has no lower_layer, and bin() is the header followed by v,
\* followed for a Radiotap frame by its fcs
C24_BodyBytesClearUpper ==
    [][ SetBodyStep =>
          /\ BodyBytesSet(heap', last'.id, since'.v)
          /\ \A u \in BOOLEAN :
                BinIs(heap', last'.id, u, since'.v,
                      IF heap'[last'.id].cls = "Radiotap"
                      THEN get_fcs(heap'[last'.id]) ELSE <<>>)
          /\ \A j \in Ids : heap[j].lower_layer = last'.id =>
                                heap'[j].lower_layer = 0 ]_vars

\* body_bytes of a packet with an attached upper packet was assigned: the
\* upper packet (packet 2) has no lower layer any more
C24_Witness ==
    /\ last.op = "set_body_bytes" /\ last.id = 1 /\ steps = 1
    /\ Len(heap) = 2 /\ heap[2].lower_layer = 0
    /\ heap[1].bodytypename = NoneC
    /\ since.v = <<4, 2>>
    /\ bin(heap, 1, TRUE).r = heap[1].header_cached \o <<4, 2>>

(***************************************************************************)
(* packet[Class]: the lookup of a layer by its class.                      *)
(***************************************************************************)
\* the loop of __getitem__ that goes up only through handlers already
\* instantiated: C25 fails
RECURSIVE getitem_from_no_lazy(_, _, _)
getitem_from_no_lazy(h, p, packet_type) ==
    IF p = 0 THEN Res(h, 0, FALSE)
    ELSE IF h[p].cls = packet_type THEN Res(h, p, FALSE)
    ELSE IF HasLazy(h[p]) \/ h[p].bodytypename = NoneC THEN Res(h, 0, FALSE)
    ELSE getitem_from_no_lazy(h, BodyAttr(h[p]), packet_type)

\* the loop of __getitem__ from p_instance = p on: [h, r |-> the instance
\* found or 0 for None]
RECURSIVE getitem_from(_, _, _)
getitem_from(h, p, packet_type) ==
    IF p = 0 THEN Res(h, 0, FALSE)
    ELSE IF h[p].cls = packet_type THEN Res(h, p, FALSE)
    ELSE The({ getitem_from(g.h, g.r, packet_type) : g \in {get_bodyhandler(h, p)} })

\* __getitem__
Packet_getitem(h, i, packet_type) ==
    getitem_from([h EXCEPT ![i].target_unpack_clz = packet_type], i, packet_type)

\* x = packet[Class]; last.arg records Class, ret <<r>> for the instance
\* r found and <<0>> for None
GetItem ==
    \E i \in Ids :
        /\ steps < MaxSteps
        /\ \E c \in Classes :
             \E g \in {Packet_getitem(heap, i, c)} :
               /\ Op("getitem", i, c, g.h, <<g.r>>)
               /\ Read("getitem")
               /\ wr' = wr

NextItem ==
    \/ GetItem
    \/ GetUpperLayer
    \/ GetBodyBytes
    \/ SetBodyBytes
    \/ Bin

SpecItem == Init /\ [][NextItem]_vars

\* the layers from packet i upward, lowest first
RECURSIVE ChainIds(_, _)
ChainIds(h, i) ==
    <<i>> \o (IF h[i].bodytypename # NoneC /\ ~HasLazy(h[i])
              THEN ChainIds(h, BodyAttr(h[i])) ELSE <<>>)

\* r is what packet[Class] is to return for packet i in h2, the heap after
\* the lookup: the first of the layers from i upward that is of class c,
\* none of them being lazy below it; 0 when, all layers instantiated,
\* none is of class c
FirstOfClass(h2, i, c, r) ==
    LET ch == ChainIds(h2, i)
    IN  IF r = 0
        THEN \A k \in 1..Len(ch) : h2[ch[k]].cls # c /\ ~HasLazy(h2[ch[k]])
        ELSE \E k \in 1..Len(ch) :
                /\ ch[k] = r /\ h2[r].cls = c
                /\ \A m \in 1..(k - 1) : h2[ch[m]].cls # c

\* packet 1 is a UDP packet parsed from bytes and untouched; its payload
PlainUDP == heap[1].cls = "UDP" /\ orig # NoneB /\ steps = 0 /\ Len(orig) > 8

\* C25: in every state, for every packet and class, packet[Class] returns
\* the first layer from the packet upward that is of that class, lazy
\* layers instantiated on the way, and None when no layer is of that
\* class, the layers it had below the one found being unchanged in class;
\* for UDP bytes with a registered port and a payload the lookup of the
\* registered class returns a layer, with an unregistered port it returns
\* None and body_bytes is the payload
C25_UpwardLookup ==
    /\ \A i \in Ids : \A c \in Classes :
          /\ FirstOfClass(Packet_getitem(heap, i, c).h, i, c,
                          Packet_getitem(heap, i, c).r)
          /\ Packet_getitem(heap, i, c).r = 0
                <=> \A k \in 1..Len(ChainClasses(dissect_full(heap, i), i)) :
                        ChainClasses(dissect_full(heap, i), i)[k] # c
    /\ (last.op = "getitem" /\ ret # <<0>>) =>
          /\ heap[ret[1]].cls = last.arg
          /\ ret[1] \in UpChain(heap, last.id)
    /\ (PlainUDP /\ UDP_htype(orig) # -1) =>
          Packet_getitem(heap, 1, HandlerClass("UDP", UDP_htype(orig))).r # 0
    /\ (PlainUDP /\ UDP_htype(orig) = -1) =>
          /\ \A c \in Classes \ {"UDP"} : Packet_getitem(heap, 1, c).r = 0
          /\ get_bodybytes(heap, 1).r = SliceFrom(orig, 8)

\* ip[DNS] on an IP packet parsed from bytes: the UDP and the DNS layer
\* were instantiated and the DNS layer (packet 3) returned
C25_Witness ==
    /\ last.op = "getitem" /\ last.id = 1 /\ last.arg = "DNS" /\ steps = 1
    /\ heap[1].cls = "IP" /\ orig # NoneB
    /\ ret = <<3>>
    /\ heap[3].cls = "DNS" /\ heap[2].cls = "UDP"
    /\ heap[3].lower_layer = 2 /\ heap[2].lower_layer = 1

(***************************************************************************)
(* Packet.load_handler and the shared dictionary Packet._handler.  A       *)
(* mapping is the sequence of the items of the dict passed, in its order:  *)
(* [tup |-> the key is a tuple, ids |-> its values (the key itself when    *)
(* it is no tuple), clz |-> the class].                                    *)
(***************************************************************************)
Item(ids, clz) == [tup |-> TRUE, ids |-> ids, clz |-> clz]

Single(id, clz) == [tup |-> FALSE, ids |-> <<id>>, clz |-> clz]

\* d[id] = clz of a dict
Put(d, id, clz) == [k \in DOMAIN d \cup {id} |-> IF k = id THEN clz ELSE d[k]]

\* for id_x in handler_id: Packet._handler[clz_name][id_x] = packetclass
RECURSIVE store_ids(_, _, _)
store_ids(d, ids, clz) ==
    IF ids = <<>> THEN d ELSE store_ids(Put(d, Head(ids), clz), Tail(ids), clz)

\* for handler_id, packetclass in handler.items(): ...
RECURSIVE store_items(_, _)
store_items(d, items) ==
    IF items = <<>> THEN d
    ELSE store_items(IF Head(items).tup
                     THEN store_ids(d, Head(items).ids, Head(items).clz)
                     ELSE Put(d, Head(items).ids[1], Head(items).clz),
                     Tail(items))

\* load_handler without the test "clz_name in Packet._handler": C26 fails
load_handler_again(reg, clz_name, handler) ==
    Put(reg, clz_name, store_items(NoAttrs, handler))

\* Packet.load_handler(clz_add, handler) on the dictionary reg, clz_name
\* being clz_add.__name__
load_handler(reg, clz_name, handler) ==
    IF clz_name \in DOMAIN reg THEN reg
    ELSE Put(reg, clz_name, store_items(NoAttrs, handler))

\* the mappings passed: the ones of udp.py and radiotap.py (their classes
\* of this model), an empty one, ones that disagree with them and one
\* whose keys share a value
Mappings ==
    { << Item(<<53, 5353>>, "DNS"), Single(123, "NTP") >>,
      << Single(RTAP_TYPE_80211, "IEEE80211") >>,
      << >>,
      << Single(53, "NTP") >>,
      << Item(<<53>>, "NTP"), Item(<<123, 5353>>, "DNS") >>,
      << Item(<<53, 123>>, "DNS"), Single(123, "NTP") >> }

Protocols == {"UDP", "Radiotap", "IP"}

\* _handler = {} of the class body; since.handler is Packet._handler
InitReg ==
    /\ heap = <<>>
    /\ orig = NoneB
    /\ steps = 0
    /\ last = [op |-> "init", id |-> 0, arg |-> "", wr |-> {}, chg |-> {},
               upd |-> {}, pre |-> <<>>]
    /\ ret = NoneB
    /\ nwrites = 0
    /\ since = [handler |-> NoAttrs]
    /\ wr = {}

\* Packet.load_handler(Class, mapping); last records the class name, the
\* mapping and the dictionary before the call
LoadHandler ==
    \E c \in Protocols :
        /\ steps < MaxSteps
        /\ \E m \in Mappings :
             /\ since' = [handler |-> load_handler(since.handler, c, m)]
             /\ last' = [op |-> "load_handler", id |-> 0, arg |-> <<c, m>>,
                         wr |-> {}, chg |-> {}, upd |-> {}, pre |-> since.handler]
        /\ steps' = steps + 1
        /\ UNCHANGED <<heap, ret, orig, nwrites, wr>>

\* handler = Packet._handler[self.__class__.__name__][hndl_type] of
\* _init_handler: ret is <<the class>>, ExcB for the KeyError
LookupHandler ==
    \E c \in Protocols :
        /\ steps < MaxSteps
        /\ \E id \in {53, 123, 5353, RTAP_TYPE_80211, 7} :
             /\ ret' = IF c \in DOMAIN since.handler /\ id \in DOMAIN since.handler[c]
                       THEN <<since.handler[c][id]>> ELSE ExcB
             /\ last' = [op |-> "lookup", id |-> 0, arg |-> <<c, id>>,
                         wr |-> {}, chg |-> {}, upd |-> {}, pre |-> since.handler]
        /\ steps' = steps + 1
        /\ UNCHANGED <<heap, orig, nwrites, since, wr>>

NextReg ==
    \/ LoadHandler
    \/ LookupHandler

SpecReg == InitReg /\ [][NextReg]_vars

\* the discriminators of a mapping
IdsOf(m) == UNION { { m[k].ids[j] : j \in 1..Len(m[k].ids) } : k \in 1..Len(m) }

\* the items of mapping m that hold discriminator id
Holding(m, id) == { k \in 1..Len(m) : \E j \in 1..Len(m[k].ids) : m[k].ids[j] = id }

\* no discriminator is in two keys of the mapping
DisjointKeys(m) == \A id \in IdsOf(m) : Cardinality(Holding(m, id)) = 1

FullyDissected == last.op = "dissect_full" /\ orig # NoneB

\* the TriggerList fields of packet p are TriggerList instances
Materialized(p) ==
    \A g \in FieldSet(p.cls) : Field(p.cls, g).tl => p.vals[g].k = "list"

\* C27: after dissect_full() on a packet parsed from bytes every layer
\* from the receiver upward is unpacked, every TriggerList field of it is
\* materialized and no layer holds lazy handler data
C27_DissectFull ==
    FullyDissected =>
        \A k \in UpChain(heap, last.id) :
            /\ heap[k].unpacked = "True"
            /\ Materialized(heap[k])
            /\ ~HasLazy(heap[k])

\* what does hold: no layer holds lazy handler data
C27_NoLazyLeft ==
    FullyDissected => \A k \in UpChain(heap, last.id) : ~HasLazy(heap[k])

\* dissect_full() as the first call on a packet parsed from bytes whose
\* body has a handler: the handler was instantiated, and the receiver
\* and the handler are still not unpacked
C27_StillPacked ==
    /\ FullyDissected /\ steps = 1 /\ last.id = 1
    /\ heap[1].bodytypename # NoneC /\ ~HasLazy(heap[1])
    /\ heap[1].unpacked = "False"
    /\ heap[BodyAttr(heap[1])].unpacked = "False"

(***************************************************************************)
(* The tri-state _unpacked: None until the constructor is done, False      *)
(* after construction from bytes, True once the header was unpacked.       *)
(***************************************************************************)
NextUnp ==
    \/ GetField
    \/ SetField
    \/ FlagsAppend
    \/ FlagsDelLast
    \/ GetHeaderBytes
    \/ GetBodyBytes
    \/ SetBodyBytes
    \/ GetUpperLayer
    \/ ClearUpperLayer
    \/ SetUpperLayer
    \/ Add
    \/ Bin
    \/ HexdumpHeader
    \/ DissectFull
    \/ GetItem

SpecUnp == Init /\ [][NextUnp]_vars

\* the constructors are done: no packet is in the state None, and a
\* packet alone is not yet unpacked when made from bytes (orig) and
\* unpacked when made from keywords or from nothing
Constructed ==
    /\ \A i \in Ids : heap[i].unpacked \in {"False", "True"}
    /\ Len(heap) = 1 =>
          heap[1].unpacked = (IF orig # NoneB THEN "False" ELSE "True")

\* one step of the tri-state: no packet is left in the state None, a
\* packet made in the step from the bytes of a lazy handler (not the new
\* packet that is added or set as handler) is not yet unpacked, an unpacked packet stays unpacked, and the packet is
\* unpacked after a read or a write of a simple field, after a mutation
\* of a TriggerList and after its changed header was packed
UnpackedStep ==
    /\ \A i \in 1..Len(heap') :
          /\ heap'[i].unpacked \in {"False", "True"}
          /\ (i > Len(heap) /\ last'.op \notin {"add", "set_upper_layer"})
                => heap'[i].unpacked = "False"
    /\ \A i \in Ids :
          heap[i].unpacked = "True" => heap'[i].unpacked = "True"
    /\ last'.op \in {"getfield", "setfield", "flags_append", "flags_del"}
          => heap'[last'.id].unpacked = "True"
    /\ (last'.op = "header_bytes" /\ heap[last'.id].header_changed)
          => heap'[last'.id].unpacked = "True"

\* C28: the tri-state only moves forward: construction from bytes ends
\* not yet unpacked, construction from keywords or from nothing ends
\* unpacked, a not yet unpacked packet becomes unpacked on a simple field
\* read or write, on a TriggerList mutation and on header pack, and no
\* operation takes an unpacked packet back
C28_UnpackedForward == Constructed /\ [][UnpackedStep]_vars

\* a packet parsed from bytes was unpacked by the first call and is still
\* unpacked after its handler was read, the handler made from its lazy
\* data being not yet unpacked
C28_Witness ==
    /\ orig # NoneB /\ steps = 2
    /\ heap[1].unpacked = "True"
    /\ last.op = "upper_layer" /\ last.id = 1
    /\ Len(heap) = 2 /\ heap[2].unpacked = "False" /\ heap[2].lower_layer = 1

(***************************************************************************)
(* The states of a body: raw bytes, lazy handler data, an attached         *)
(* handler.                                                                *)
(***************************************************************************)
BodyState(p) ==
    IF HasLazy(p) THEN "lazy"
    ELSE IF p.bodytypename # NoneC THEN "attached" ELSE "raw"

\* the body of packet i changes in the step: another state, or another
\* handler attached
BodyMoves(i) ==
    \/ BodyState(heap[i]) # BodyState(heap'[i])
    \/ /\ BodyState(heap[i]) = "attached"
       /\ BodyAttr(heap[i]) # BodyAttr(heap'[i])

\* the changes the statement lists
ListedMoves ==
    { <<"raw", "lazy">>, <<"lazy", "attached">>, <<"attached", "raw">>,
      <<"raw", "attached">>, <<"attached", "attached">> }

\* C29 as stated: every change of a body state is raw to lazy, lazy to
\* attached, attached to raw, raw to attached or attached to attached;
\* none is lazy to raw or attached to lazy
C29_Original ==
    [][\A i \in Ids :
          BodyMoves(i) =>
             <<BodyState(heap[i]), BodyState(heap'[i])>> \in ListedMoves]_vars

\* the operations that assign the body of the packet they are called on
BodySetters == {"set_body_bytes", "set_upper_layer", "add"}

\* C29: every change of a body state after construction is lazy to
\* attached (an access, or a handler set), attached to raw (body bytes set,
\* or the handler set to None), raw to attached (a handler set), attached
\* to attached (replacement) or lazy to raw (body bytes set, or the handler
\* set to None); none is attached to lazy or raw to lazy; a body is raw
\* after body bytes were set and attached after its handler was read
C29_BodyMoves ==
    [][/\ \A i \in Ids :
            BodyMoves(i) =>
               /\ <<BodyState(heap[i]), BodyState(heap'[i])>> \in
                     (ListedMoves \ {<<"raw", "lazy">>}) \cup {<<"lazy", "raw">>}
               /\ BodyState(heap[i]) # "lazy" => last'.op \in BodySetters
               /\ BodyState(heap'[i]) = "raw" =>
                     /\ last'.op \in {"set_body_bytes", "set_upper_layer"}
                     /\ last'.id = i
       /\ last'.op = "set_body_bytes" => BodyState(heap'[last'.id]) = "raw"
       /\ (last'.op = "upper_layer" /\ BodyState(heap[last'.id]) = "lazy")
             => BodyState(heap'[last'.id]) = "attached"]_vars

\* body_bytes was set on a packet parsed from bytes whose body was lazy:
\* the body is raw, lazy before
C29_Witness ==
    /\ orig # NoneB /\ steps = 1
    /\ last.op = "set_body_bytes" /\ last.id = 1
    /\ FromBytes(heap[1].cls, orig) \in Roots
    /\ BodyState(Construct(<<>>, FromBytes(heap[1].cls, orig)).h[1]) = "lazy"
    /\ BodyState(heap[1]) = "raw"

(***************************************************************************)
(* Packet.bin: lazy bodies, attached handlers and the change flags.        *)
(***************************************************************************)
\* bin() of packet last'.id returned in the step
BinReturned == last'.op = "bin" /\ ret' # ExcB

\* what the header caches and bodies of packet j and of the layers above
\* it add up to, each Radiotap layer followed by its fcs
RECURSIVE Emitted(_, _)
Emitted(h, j) ==
    h[j].header_cached
    \o (IF HasLazy(h[j]) THEN h[j].lazy_handler_data.buf
        ELSE IF h[j].bodytypename # NoneC THEN Emitted(h, BodyAttr(h[j]))
        ELSE h[j].body_bytes)
    \o (IF h[j].cls = "Radiotap" THEN get_fcs(h[j]) ELSE <<>>)

\* C30: when bin() returns, a lazy body of the receiver is still lazy with
\* the same data, no packet was instantiated, what is returned is the
\* header followed by the lazy buffer; with an attached handler what is
\* returned is the header followed by what the handler's bin() produced
\* (the layers' new header caches and bodies); header_changed and
\* body_changed are false on the receiver and on every attached layer
\* above it
C30_BinLazyAndFlags ==
    [][BinReturned =>
         /\ HasLazy(heap[last'.id]) =>
              /\ heap'[last'.id].lazy_handler_data = heap[last'.id].lazy_handler_data
              /\ heap'[last'.id].bodytypename = heap[last'.id].bodytypename
         /\ Len(heap') = Len(heap)
         /\ \A k \in Ids : BodyState(heap'[k]) = BodyState(heap[k])
         /\ ret' = Emitted(heap', last'.id)
         /\ \A k \in UpChain(heap', last'.id) :
              ~heap'[k].header_changed /\ ~heap'[k].body_changed]_vars

\* bin() returned on a changed packet parsed from bytes whose body is lazy
C30_Witness ==
    /\ last.op = "bin" /\ last.id = 1 /\ ret # ExcB /\ orig # NoneB
    /\ 1 \in last.wr
    /\ HasLazy(heap[1]) /\ Len(heap) = 1
    /\ ~heap[1].header_changed /\ ~heap[1].body_changed

\* bin() returned on a packet with two attached layers above it, the
\* highest of them written to before
C30_WitnessAttached ==
    /\ last.op = "bin" /\ last.id = 1 /\ ret # ExcB
    /\ Cardinality(UpChain(heap, 1)) = 3
    /\ last.wr \cap UpChain(heap, 1) # {}

(***************************************************************************)
(* header_len, header_bytes and len().                                     *)
(***************************************************************************)
\* header_bytes of packet p can be read: _pack_header returns bytes
HeaderPacks(p) ==
    \E hb \in {pack_header(p)} : ~hb.x /\ hb.r # NoneB /\ hb.r # ExcB

\* the sum of the current widths of the active fields of p: the size of
\* the format of a simple field, the length of the serialized TriggerList
Widths(p) ==
    StructSize([k \in 1..Len(ActiveNames(p)) |-> FieldFormat(p, ActiveNames(p)[k])])

\* the property header_len of p, as read in the current state
HeaderLenOf(p) == get_header_len(p).header_len

\* C34: in every state, for every packet whose header can be packed, the
\* property header_len is the sum of the widths of the active fields and
\* the length of header_bytes, and len(packet) is header_len plus the
\* length of body_bytes
C34_HeaderLen ==
    \A i \in Ids :
        HeaderPacks(heap[i]) =>
            /\ HeaderLenOf(heap[i]) = Len(pack_header(heap[i]).r)
            /\ HeaderLenOf(heap[i]) = Widths(pack_header(heap[i]).p)
            /\ (~get_bodybytes(heap, i).x /\ ~Packet_len(heap, i).x) =>
                  Packet_len(heap, i).r
                     = HeaderLenOf(heap[i]) + Len(get_bodybytes(heap, i).r)

\* what does hold: the statement for every packet whose header is packed
\* anew, the cached header being out of date
C34_Repacked ==
    \A i \in Ids :
        (heap[i].header_changed /\ HeaderPacks(heap[i])) =>
            /\ HeaderLenOf(heap[i]) = Len(pack_header(heap[i]).r)
            /\ HeaderLenOf(heap[i]) = Widths(pack_header(heap[i]).p)

\* a UDP packet parsed from fewer than 8 bytes without dissect_error:
\* header_len is 8, header_bytes are the bytes given
C34_ShortHeader ==
    /\ steps = 0 /\ orig # NoneB /\ heap[1].cls = "UDP"
    /\ ~heap[1].dissect_error
    /\ HeaderPacks(heap[1])
    /\ HeaderLenOf(heap[1]) = 8
    /\ Len(pack_header(heap[1]).r) < 8
    /\ pack_header(heap[1]).r = orig

(***************************************************************************)
(* The back-pointer _lower_layer.                                          *)
(***************************************************************************)
\* u is the handler attached to packet p
AttachedTo(h, p, u) ==
    /\ h[p].bodytypename # NoneC /\ ~HasLazy(h[p])
    /\ BodyAttr(h[p]) = u

\* U.lower_layer is P exactly when U is the handler attached to P
BackPointers(h) ==
    \A u \in 1..Len(h) : \A p \in 1..Len(h) :
        h[u].lower_layer = p <=> AttachedTo(h, p, u)

\* upper_layer = V or None on a packet P with handler U: U.lower_layer is
\* None afterwards, V.lower_layer is P
Relinked ==
    (last'.op = "set_upper_layer"
        /\ heap[last'.id].bodytypename # NoneC /\ ~HasLazy(heap[last'.id])) =>
       /\ heap'[BodyAttr(heap[last'.id])].lower_layer = 0
       /\ last'.arg # "None" =>
             /\ AttachedTo(heap', last'.id, Len(heap'))
             /\ heap'[Len(heap')].lower_layer = last'.id

\* C35: a handler replaced loses its back-pointer and the new handler
\* points to the packet; after any sequence of upper_layer assignments,
\* body_bytes assignments and concatenations, none of them attaching a
\* packet to two lower layers, U.lower_layer is P exactly when U is the
\* handler attached to P
C35_BackPointers == [](BackPointers(heap)) /\ [][Relinked]_vars

\* the handler of a packet was replaced by a second one: the first (packet
\* 2) has no lower layer, the second (packet 3) has packet 1
C35_Witness ==
    /\ last.op = "set_upper_layer" /\ last.id = 1 /\ last.arg # "None"
    /\ Len(heap) = 3
    /\ heap[2].lower_layer = 0 /\ heap[3].lower_layer = 1
    /\ AttachedTo(heap, 1, 3)

(***************************************************************************)
(* Reading body_bytes.                                                     *)
(***************************************************************************)
\* the change flags of the packets of heap h, in the order of the heap
ChangeFlags(h) ==
    [k \in 1..Len(h) |-> <<h[k].header_changed, h[k].body_changed>>]

\* body_bytes of packet last'.id was read in the step and returned bytes
BodyRead == last'.op = "body_bytes" /\ ret' # ExcB /\ ret' # NoneB

\* what bin() of packet i returns without the header of i and without the
\* fcs Radiotap.bin appends
BinBody(h, i) == bin_body(h, i, TRUE)

\* C36: reading body_bytes returns the bytes bin() returns without this
\* layer's header, and the change flags of the receiver and of every
\* layer above it are the same as before the read
C36_BodyBytesRead ==
    [][BodyRead =>
          /\ ~BinBody(heap, last'.id).x => ret' = BinBody(heap, last'.id).r
          /\ \A k \in UpChain(heap, last'.id) :
                ChangeFlags(heap')[k] = ChangeFlags(heap)[k]]_vars

\* only the flags
C36_FlagsKept ==
    [][BodyRead =>
          \A k \in UpChain(heap, last'.id) :
              ChangeFlags(heap')[k] = ChangeFlags(heap)[k]]_vars

\* body_bytes of a packet was read whose handler had a changed header:
\* the handler's header_changed is false afterwards, reset by the read
C36_FlagReset ==
    /\ last.op = "body_bytes" /\ ret # ExcB /\ steps = 2
    /\ heap[last.id].bodytypename # NoneC /\ ~HasLazy(heap[last.id])
    /\ BodyAttr(heap[last.id]) \in last.wr
    /\ since.id = BodyAttr(heap[last.id]) /\ since.f \notin {"body_bytes", "upper_layer"}
    /\ since.ok /\ since.ops = <<"body_bytes">>
    /\ ~heap[BodyAttr(heap[last.id])].header_changed

\* what does hold: the bytes read are those bin(update_auto_fields=False)
\* returns without the header of the receiver
C36_BytesOfBin ==
    [][BodyRead =>
          (~bin_body(heap, last'.id, FALSE).x
              => ret' = bin_body(heap, last'.id, FALSE).r)]_vars

(***************************************************************************)
(* Edits of the TriggerList of a packet that is not yet unpacked.          *)
(***************************************************************************)
\* the setter of a TriggerList field without the unpack of _lazy_dissect:
\* C33 fails
setfield_triggerlist_no_unpack(p, f, value) ==
    [p |-> [notify_change([getfield_triggerlist(p, f)
                              EXCEPT !.vals[f].items = value.items,
                                     !.vals[f].cb = FALSE], f)
               EXCEPT !.header_changed = TRUE],
     x |-> FALSE]

\* the setter of a TriggerList field, packet.f = value: the list is
\* instantiated, emptied by "del tl[:]", which unpacks the packet and
\* dissects the list first, and filled with value, a list of elements or
\* one element: [p, x]
setfield_triggerlist(p, f, value) ==
    The({ IF d.x THEN d
          ELSE [p |-> [notify_change([d.p EXCEPT !.vals[f].items = value.items], f)
                          EXCEPT !.header_changed = TRUE],
                x |-> FALSE]
        : d \in {lazy_dissect(getfield_triggerlist(p, f), f)} })

\* the values assigned to flags: one element, a list of two, the empty list
FlagValues ==
    { [list |-> FALSE, items |-> <<v>>] : v \in FlagItems }
    \cup { [list |-> TRUE, items |-> <<>>],
           [list |-> TRUE, items |-> << <<RATE_MASK, <<2>>>>, <<RATE_MASK, <<4>>>> >>] }

\* packet.flags = value
FlagsAssign ==
    \E i \in Ids :
        /\ steps < MaxSteps
        /\ heap[i].cls = "Radiotap"
        /\ \E v \in FlagValues :
             \E a \in {setfield_triggerlist(heap[i], "flags", v)} :
               /\ Op("flags_set", i, "", [heap EXCEPT ![i] = a.p],
                     IF a.x THEN ExcB ELSE NoneB)
               /\ nwrites' = Min(nwrites + 1, 2)
               /\ since' = [id |-> i, f |-> "flags", v |-> bin(heap, i, FALSE).r,
                            ok |-> ~a.x, ops |-> <<>>]
               /\ wr' = wr \cup {i}

NextMut ==
    \/ FlagsAppend
    \/ FlagsDelLast
    \/ FlagsAssign
    \/ GetField
    \/ SetField
    \/ GetHeaderBytes
    \/ Bin

SpecMut == InitTL /\ [][NextMut]_vars

\* the step edited the TriggerList of a packet that was not yet unpacked
EditedPacked ==
    /\ last'.op \in {"flags_append", "flags_del", "flags_set"}
    /\ ret' # ExcB
    /\ heap[last'.id].unpacked = "False"

\* the bytes of the simple fields of packet p in its cached header: those
\* before the TriggerList, the last field of the header
SimpleBytes(p) ==
    SubSeq(p.header_cached, 1,
           StructSize([k \in 1..Len(UnpackNames(p)) |-> FieldFormat(p, UnpackNames(p)[k])]))

\* the TriggerList fields of packet p
ListNames(p) == {f \in FieldSet(p.cls) : Field(p.cls, f).tl}

\* no packet that is still to be unpacked holds an edited TriggerList, the
\* format of which would not fit the cached header
NoStaleUnpack ==
    \A i \in Ids :
        heap[i].unpacked = "False" =>
            \A f \in ListNames(heap[i]) :
                heap[i].vals[f].k = "cell" \/ heap[i].vals[f].bts # NoneB

\* after the edit of a list of a packet not yet unpacked the packet is
\* unpacked, its simple fields hold the values of the cached header, and
\* bin() returns the original bytes of the simple fields, the new
\* serialization of the list and the body
EditUnpacks ==
    EditedPacked =>
        /\ heap'[last'.id].unpacked = "True"
        /\ \A f \in FieldSet(heap[last'.id].cls) \ ListNames(heap[last'.id]) :
               heap'[last'.id].vals[f] = Unpacked(heap[last'.id])[f]
        /\ bin(heap', last'.id, FALSE).r
             = SimpleBytes(heap[last'.id])
               \o FlagTriggerList_pack(heap'[last'.id].vals["flags"].items)
               \o bin_body(heap', last'.id, FALSE).r
               \o get_fcs(heap'[last'.id])

\* C33: an edit of the TriggerList of a packet not yet unpacked unpacks
\* the packet against its cached header first: bin() afterwards returns
\* the original bytes of the simple fields with the new serialization of
\* the list, and no packet still to be unpacked holds an edited list
C33_UnpackBeforeEdit == NoStaleUnpack /\ [][EditUnpacks]_vars

\* flags of a frame parsed from bytes was assigned as the first operation:
\* the frame is unpacked and the version byte of the buffer is kept
C33_Witness ==
    /\ last.op = "flags_set" /\ steps = 1 /\ ret # ExcB
    /\ orig # NoneB /\ Len(orig) >= 8
    /\ heap[1].unpacked = "True"
    /\ heap[1].vals["flags"].bts = NoneB
    /\ Len(heap[1].vals["flags"].items) = 2
    /\ SubSeq(bin(heap, 1, FALSE).r, 1, 8) = SubSeq(orig, 1, 8)

(***************************************************************************)
(* Unpacking under other schema orders.                                    *)
(***************************************************************************)
OrderInputs ==
    { FromBytes("Mid", <<4, 0, 6, 7>>),
      FromBytes("Mid", <<4, 1, 6, 7>> \o <<8>>),
      FromBytes("Gap", <<4, 0, 6>>),
      FromBytes("Gap", <<5, 1, 0>> \o <<8, 8>>),
      FromBytes("Tlv", <<0, 7>>),
      FromBytes("Tlv", <<2, 7, 4, 5>> \o <<8>>),
      FromBytes("UDP", UDPHeader(1, 2, 77, 5) \o <<9>>),
      FromBytes("Radiotap", <<0, 0, 10, 0,  6, 0, 0, 0,  0, 12>> \o <<1, 2>>),
      FromKw("Mid", <<>>), FromKw("Gap", <<>>) }

InitOrder ==
    \E c \in OrderInputs :
        /\ heap = Construct(<<>>, c).h
        /\ orig = c.buf
        /\ steps = 0
        /\ last = [op |-> "init", id |-> 0, arg |-> "", wr |-> {}, chg |-> {},
                   upd |-> {}, pre |-> <<>>]
        /\ ret = NoneB
        /\ nwrites = 0
        /\ since = NoWrite
        /\ wr = {}

NextOrder ==
    \/ GetField
    \/ SetField
    \/ GetHeaderBytes
    \/ Bin

SpecOrder == InitOrder /\ [][NextOrder]_vars

\* the active fields of packet p that precede field f
Before(p, f) ==
    SelectSeq(ActiveNames(p),
              LAMBDA g : \E j, k \in 1..Len(Hdr(p.cls)) :
                            /\ j < k
                            /\ Hdr(p.cls)[j].name = g /\ Hdr(p.cls)[k].name = f)

\* the offset of active field f in the header bytes of packet p
FieldOffset(p, f) ==
    StructSize([k \in 1..Len(Before(p, f)) |-> FieldFormat(p, Before(p, f)[k])])

\* the value of field f decoded at its own position in the cached header
DecodedAt(p, f) ==
    StructUnpack(<<FieldFormat(p, f)>>,
                 SubSeq(p.header_cached, FieldOffset(p, f) + 1,
                        FieldOffset(p, f) + FieldFormat(p, f).n))[1]

\* the active simple fields of packet p
SimpleActive(p) == {f \in FieldSet(p.cls) : ~Field(p.cls, f).tl /\ p.active[f]}

\* the step read a field of a packet that was not yet unpacked
UnpackedNow ==
    /\ last'.op = "getfield" /\ ret' # ExcB
    /\ heap[last'.id].unpacked = "False"

\* C38: unpacking a header not yet unpacked gives every active simple
\* field the value decoded at the field's own position in the cached
\* header, whatever the order of the schema
C38_OwnPosition ==
    [][UnpackedNow =>
          \A f \in SimpleActive(heap[last'.id]) :
              heap'[last'.id].vals[f] = DecodedAt(heap[last'.id], f)]_vars

\* no TriggerList precedes a simple field in the schema of class cls
ListsLast(cls) ==
    \A j, k \in 1..Len(Hdr(cls)) : (j < k /\ Hdr(cls)[j].tl) => Hdr(cls)[k].tl

\* what does hold: the statement for the schemas without a TriggerList
\* before a simple field, an inactive field before a simple one included
C38_ListsLast ==
    [][(UnpackedNow /\ ListsLast(heap[last'.id].cls)) =>
          \A f \in SimpleActive(heap[last'.id]) :
              heap'[last'.id].vals[f] = DecodedAt(heap[last'.id], f)]_vars

\* Mid(b"\x04\x00\x06\x07") was read: b holds the bytes of the slot of the
\* TriggerList and c the bytes at the position of b
C38_Misaligned ==
    /\ last.op = "getfield" /\ ret # ExcB /\ steps = 1
    /\ heap[1].cls = "Mid" /\ orig = <<4, 0, 6, 7>>
    /\ heap[1].unpacked = "True"
    /\ heap[1].vals["a"] = 4
    /\ heap[1].vals["b"] = <<>>
    /\ heap[1].vals["c"] = <<0, 6>>

(***************************************************************************)
(* TriggerLists of packets and the change listeners.  The elements are     *)
(* packets of the heap: an element of the list is <<e, bytes>>, e the      *)
(* index of the packet and bytes what its bin() returns (an element of a   *)
(* list of Radiotap flags is <<mask, bytes>>).  The operators work on      *)
(* w = [h |-> the heap, sh |-> the class attribute _changelistener of      *)
(* every class, the list all instances share until they get their own].    *)
(* A listener is <<o, f>>: _notify_change of the list in field f of        *)
(* packet o.                                                               *)
(***************************************************************************)
World(h, sh) == [h |-> h, sh |-> sh]

\* t._changelistener = [] of MetaPacket.__new__
NoListeners == [c \in {"Tlv", "Opt"} |-> <<>>]

\* packet v has a list _changelistener of its own
OwnListeners(p) == "_changelistener" \in DOMAIN p.attrs

\* self._changelistener of packet v
Listeners(w, v) ==
    IF OwnListeners(w.h[v]) THEN w.h[v].attrs["_changelistener"]
    ELSE w.sh[w.h[v].cls]

\* _add_change_listener without the copy of the shared list: C39 fails
add_change_listener_shared(w, v, cb) ==
    IF OwnListeners(w.h[v])
    THEN [w EXCEPT !.h[v].attrs["_changelistener"] = Append(@, cb)]
    ELSE [w EXCEPT !.sh[w.h[v].cls] = Append(@, cb)]

\* _add_change_listener: an empty list is replaced by a new one
add_change_listener(w, v, cb) ==
    IF Len(Listeners(w, v)) = 0
    THEN [w EXCEPT !.h[v].attrs = ("_changelistener" :> <<cb>>) @@ @]
    ELSE IF OwnListeners(w.h[v])
    THEN [w EXCEPT !.h[v].attrs["_changelistener"] = Append(@, cb)]
    ELSE [w EXCEPT !.sh[w.h[v].cls] = Append(@, cb)]

\* _remove_change_listener(None, remove_all=True)
remove_change_listener(w, v) ==
    IF OwnListeners(w.h[v])
    THEN [w EXCEPT !.h[v].attrs["_changelistener"] = <<>>]
    ELSE [w EXCEPT !.sh[w.h[v].cls] = <<>>]

\* the listeners cbs are called in order
RECURSIVE notify_each(_, _)
notify_each(h, cbs) ==
    IF Len(cbs) = 0 THEN h
    ELSE notify_each([h EXCEPT ![cbs[1][1]] = notify_change(@, cbs[1][2])],
                     Tail(cbs))

\* _notify_changelistener of packet v
notify_changelistener(w, v) == [w EXCEPT !.h = notify_each(@, Listeners(w, v))]

\* the element for packet e
ElemOf(h, e) == <<e, bin(h, e, TRUE).r>>

\* the loop of __refresh_listener over the packets val
RECURSIVE refresh_each(_, _, _, _)
refresh_each(w, cb, val, add_listener) ==
    IF Len(val) = 0 THEN w
    ELSE refresh_each(
             IF add_listener
             THEN add_change_listener(remove_change_listener(w, val[1]), val[1], cb)
             ELSE remove_change_listener(w, val[1]),
             cb, Tail(val), add_listener)

\* __refresh_listener(val, add_listener) of the list in field f of packet o
refresh_listener(w, o, f, val, add_listener) ==
    The({ [w1 EXCEPT !.h[o] = notify_change(@, f)]
        : w1 \in {refresh_each(w, <<o, f>>, val, add_listener)} })

\* the dissect callback of Tlv: one Opt per byte of bts, each a new packet
RECURSIVE Tlv_parse_opts(_, _, _)
Tlv_parse_opts(h, bts, acc) ==
    IF Len(bts) = 0 THEN Res(h, acc, FALSE)
    ELSE The({ Tlv_parse_opts(n.h, Tail(bts), Append(acc, <<n.r, <<bts[1]>>>>))
             : n \in {Packet_init_bytes(h, "Opt", <<bts[1]>>, 0)} })

\* _lazy_dissect of a list of packets: the elements the callback returns
\* are put into the list by list.extend, which registers no listener: [w, x]
lazy_dissect_packets(w, o, f) ==
    The({ IF u.x \/ ~u.p.vals[f].cb THEN [w |-> [w EXCEPT !.h[o] = u.p], x |-> u.x]
          ELSE The({ [w |-> [w EXCEPT !.h = [c.h EXCEPT ![o].vals[f].cb = FALSE,
                                                        ![o].vals[f].items = @ \o c.r]],
                      x |-> FALSE]
                   : c \in {Tlv_parse_opts([w.h EXCEPT ![o] = u.p],
                                           u.p.vals[f].bts, <<>>)} })
        : u \in {unpack_if_needed(w.h[o])} })

\* the property getter, then _lazy_dissect
Dissected(w, o, f) ==
    lazy_dissect_packets([w EXCEPT !.h[o] = getfield_triggerlist(@, f)], o, f)

\* a method that extends the list: the elements es are placed by place,
\* the listener is registered on the packets val
Extended(w, o, f, es, val, place(_, _)) ==
    The({ IF d.x THEN d
          ELSE [w |-> refresh_listener(
                          [d.w EXCEPT !.h[o].vals[f].items =
                              place(@, [k \in 1..Len(es) |-> ElemOf(d.w.h, es[k])])],
                          o, f, val, TRUE),
                x |-> FALSE]
        : d \in {Dissected(w, o, f)} })

AtEnd(items, new) == items \o new
AtFront(items, new) == new \o items

\* TriggerList.append(e), extend(es), insert(0, e) for packets
TL_append(w, o, f, e) == Extended(w, o, f, <<e>>, <<e>>, AtEnd)
TL_extend(w, o, f, es) == Extended(w, o, f, es, es, AtEnd)
TL_insert(w, o, f, e) == Extended(w, o, f, <<e>>, <<e>>, AtFront)

\* TriggerList.__iadd__(es): __refresh_listener([es]) meets the list es
\* where it expects a packet, the AttributeError ends its loop
TL_iadd(w, o, f, es) == Extended(w, o, f, es, <<>>, AtEnd)

\* TriggerList.__setitem__(k, e), k from 0: the call that is to remove the
\* listener of the old element names a method that does not exist, the
\* AttributeError is absorbed
TL_setitem(w, o, f, k, e) ==
    The({ IF d.x THEN d
          ELSE IF k >= Len(d.w.h[o].vals[f].items) THEN [w |-> d.w, x |-> TRUE]
          ELSE [w |-> refresh_listener(
                          [d.w EXCEPT !.h[o].vals[f].items[k + 1] = ElemOf(d.w.h, e)],
                          o, f, <<e>>, TRUE),
                x |-> FALSE]
        : d \in {Dissected(w, o, f)} })

\* the packets of the elements items
PacketsOf(items) == [k \in 1..Len(items) |-> items[k][1]]

\* TriggerList.__delitem__(k) for an int k from 0
TL_delitem(w, o, f, k) ==
    The({ IF d.x THEN d
          ELSE IF k >= Len(d.w.h[o].vals[f].items) THEN [w |-> d.w, x |-> TRUE]
          ELSE [w |-> refresh_listener(
                          [d.w EXCEPT !.h[o].vals[f].items = Without(@, k + 1)],
                          o, f, <<d.w.h[o].vals[f].items[k + 1][1]>>, FALSE),
                x |-> FALSE]
        : d \in {Dissected(w, o, f)} })

\* TriggerList.__delitem__(slice(None)): del tl[:]
TL_delslice(w, o, f) ==
    The({ IF d.x THEN d
          ELSE [w |-> refresh_listener(
                          [d.w EXCEPT !.h[o].vals[f].items = <<>>],
                          o, f, PacketsOf(d.w.h[o].vals[f].items), FALSE),
                x |-> FALSE]
        : d \in {Dissected(w, o, f)} })

\* the setter of a TriggerList field for packets: packet.f = es
TL_assign(w, o, f, es) ==
    The({ IF d.x THEN d
          ELSE The({ [w |-> notify_changelistener(
                               [a.w EXCEPT !.h[o].header_changed = TRUE], o),
                      x |-> FALSE]
                   : a \in {TL_extend(d.w, o, f, es)} })
        : d \in {TL_delslice(w, o, f)} })

\* the elements of the lists of Tlv packets with the bytes bin() of their
\* packets returns now
Sync(h) ==
    [i \in 1..Len(h) |->
        IF h[i].cls = "Tlv" /\ h[i].vals["opts"].k = "list"
        THEN [h[i] EXCEPT !.vals["opts"].items =
                 [k \in 1..Len(@) |-> ElemOf(h, @[k][1])]]
        ELSE h[i]]

\* the setter of a simple field with its call of _notify_changelistener()
Packet_setfield(w, v, f, value) ==
    The({ IF u.x THEN [w |-> [w EXCEPT !.h[v] = u.p], x |-> TRUE]
          ELSE [w |-> [w1 EXCEPT !.h = Sync(@)], x |-> FALSE]
        : u \in {setfield_simple(w.h[v], f, value)},
          w1 \in {notify_changelistener(
                      [w EXCEPT !.h[v] = setfield_simple(w.h[v], f, value).p], v)} })

\* the setter of body_bytes with its call of _notify_changelistener()
Packet_set_body_bytes(w, v, value) ==
    The({ [w |-> [w1 EXCEPT !.h = Sync(@)], x |-> FALSE]
        : w1 \in {notify_changelistener(
                      [w EXCEPT !.h = set_body_bytes(@, v, value)], v)} })

\* pkt.bin() of the elements of a list that bin() of packet o serialized
\* anew: h0 before bin(), h1 after
RECURSIVE bin_each(_, _)
bin_each(h, es) ==
    IF Len(es) = 0 THEN h ELSE bin_each(bin(h, es[1], TRUE).h, Tail(es))

Serialized(h0, h1, o) ==
    IF h0[o].cls = "Tlv" /\ h0[o].vals["opts"].k = "list"
       /\ h0[o].vals["opts"].bts = NoneB /\ h1[o].vals["opts"].bts # NoneB
    THEN bin_each(h1, PacketsOf(h1[o].vals["opts"].items))
    ELSE h1

\* bin() of a packet that holds a list of packets
Owner_bin(h, o) ==
    The({ Res(Serialized(h, b.h, o), b.r, b.x) : b \in {bin(h, o, TRUE)} })

(***************************************************************************)
(* The state machine of a Tlv packet, the list of its field opts and the   *)
(* Opt packets in and out of it.  since holds the class attributes         *)
(* _changelistener; last.arg the packets the operation was given.          *)
(***************************************************************************)
ListInputs ==
    { FromBytes("Tlv", <<0, 7>>),
      FromBytes("Tlv", <<1, 7, 4>>),
      FromBytes("Tlv", <<2, 7, 4, 5>> \o <<8>>),
      FromKw("Tlv", <<>>),
      FromKw("Tlv", <<<<"b", 3>>>>) }

InitList ==
    \E c \in ListInputs :
        /\ heap = Construct(<<>>, c).h
        /\ orig = c.buf
        /\ steps = 0
        /\ last = [op |-> "init", id |-> 0, arg |-> <<>>, wr |-> {}, chg |-> {},
                   upd |-> {}, pre |-> <<>>]
        /\ ret = NoneB
        /\ nwrites = 0
        /\ since = [shared |-> NoListeners]
        /\ wr = {}

Now == World(heap, since.shared)

\* the packets that hold a list, the packets that can be elements
Owners == {i \in Ids : heap[i].cls = "Tlv"}
Opts == {i \in Ids : heap[i].cls = "Opt"}

\* the Opt packets the user constructs
NewOpts == {FromKw("Opt", <<<<"v", 5>>>>), FromBytes("Opt", <<6>>)}

\* an operation of this state machine: a.w is the world afterwards
ListOp(name, o, arg, a) ==
    /\ Op(name, o, arg, a.w.h, IF a.x THEN ExcB ELSE NoneB)
    /\ since' = [shared |-> a.w.sh]
    /\ UNCHANGED <<nwrites, wr>>

\* packet.opts.append(Opt(...))
ListAppend ==
    \E o \in Owners :
        /\ steps < MaxSteps
        /\ Len(heap) < MaxPkts
        /\ \E c \in NewOpts : \E n \in {Construct(heap, c)} :
              ListOp("append", o, <<n.r>>,
                     TL_append(World(n.h, since.shared), o, "opts", n.r))

\* packet.opts.insert(0, Opt(...))
ListInsert ==
    \E o \in Owners :
        /\ steps < MaxSteps
        /\ Len(heap) < MaxPkts
        /\ \E c \in NewOpts : \E n \in {Construct(heap, c)} :
              ListOp("insert", o, <<n.r>>,
                     TL_insert(World(n.h, since.shared), o, "opts", n.r))

\* packet.opts.extend([Opt(...)])
ListExtend ==
    \E o \in Owners :
        /\ steps < MaxSteps
        /\ Len(heap) < MaxPkts
        /\ \E c \in NewOpts : \E n \in {Construct(heap, c)} :
              ListOp("extend", o, <<n.r>>,
                     TL_extend(World(n.h, since.shared), o, "opts", <<n.r>>))

\* tl = packet.opts; tl += [Opt(...)]
ListIAdd ==
    \E o \in Owners :
        /\ steps < MaxSteps
        /\ Len(heap) < MaxPkts
        /\ \E c \in NewOpts : \E n \in {Construct(heap, c)} :
              ListOp("iadd", o, <<n.r>>,
                     TL_iadd(World(n.h, since.shared), o, "opts", <<n.r>>))

\* packet.opts[0] = Opt(...)
ListSetItem ==
    \E o \in Owners :
        /\ steps < MaxSteps
        /\ Len(heap) < MaxPkts
        /\ \E c \in NewOpts : \E n \in {Construct(heap, c)} :
              ListOp("setitem", o, <<n.r>>,
                     TL_setitem(World(n.h, since.shared), o, "opts", 0, n.r))

\* packet.opts = Opt(...)
ListAssign ==
    \E o \in Owners :
        /\ steps < MaxSteps
        /\ Len(heap) < MaxPkts
        /\ \E c \in NewOpts : \E n \in {Construct(heap, c)} :
              ListOp("assign", o, <<n.r>>,
                     TL_assign(World(n.h, since.shared), o, "opts", <<n.r>>))

\* del packet.opts[k]
ListDelItem ==
    \E o \in Owners :
        /\ steps < MaxSteps
        /\ \E k \in {0, 1} :
              ListOp("delitem", o, <<>>, TL_delitem(Now, o, "opts", k))

\* del packet.opts[:]
ListDelSlice ==
    \E o \in Owners :
        /\ steps < MaxSteps
        /\ ListOp("delslice", o, <<>>, TL_delslice(Now, o, "opts"))

\* packet.opts[0]: the list is dissected
ListGetItem ==
    \E o \in Owners :
        /\ steps < MaxSteps
        /\ ListOp("getitem", o, <<>>, Dissected(Now, o, "opts"))

\* opt.v = 9, packet.b = 9
ElemSetField ==
    \E i \in Ids :
        /\ steps < MaxSteps
        /\ \E v \in Writes(heap[i].cls) :
              ListOp("setfield", i, <<>>, Packet_setfield(Now, i, v[1], v[2]))

\* opt.body_bytes = v, packet.body_bytes = v
ElemSetBody ==
    \E i \in Ids :
        /\ steps < MaxSteps
        /\ \E v \in Bodies :
              ListOp("set_body_bytes", i, <<>>, Packet_set_body_bytes(Now, i, v))

\* packet.bin()
ListBin ==
    \E i \in Ids :
        /\ steps < MaxSteps
        /\ \E b \in {Owner_bin(heap, i)} :
              /\ Op("bin", i, <<>>, b.h, b.r)
              /\ UNCHANGED <<nwrites, since, wr>>

NextList ==
    \/ ListAppend
    \/ ListInsert
    \/ ListExtend
    \/ ListIAdd
    \/ ListSetItem
    \/ ListAssign
    \/ ListDelItem
    \/ ListDelSlice
    \/ ListGetItem
    \/ ElemSetField
    \/ ElemSetBody
    \/ ListBin

SpecList == InitList /\ [][NextList]_vars

\* packet o holds a list that was dissected, with its elements in items
HoldsList(h, o) ==
    h[o].cls = "Tlv" /\ h[o].vals["opts"].k = "list" /\ ~h[o].vals["opts"].cb

\* packet e is an element of the list of packet o
ElementOf(h, e, o) ==
    HoldsList(h, o) /\ \E k \in 1..Len(h[o].vals["opts"].items) :
                           h[o].vals["opts"].items[k][1] = e

\* the notifier of the list of packet o is registered on packet e
Registered(w, e, o) ==
    \E k \in 1..Len(Listeners(w, e)) : Listeners(w, e)[k] = <<o, "opts">>

\* the world after the step
Next_w == World(heap', since'.shared)

\* the world after bin() of packet o and then e.v = 9, a write to a field
\* of packet e
Written(w, o, e) ==
    Packet_setfield(World(Owner_bin(w.h, o).h, w.sh), e, "v", 9).w

\* the flags of packet o then: <<_header_changed, _header_format_changed>>
AfterWrite(w, o, e) ==
    The({ <<a.h[o].header_changed, a.h[o].header_format_changed>>
        : a \in {Written(w, o, e)} })

\* the step was a structural edit of the list of packet last'.id
Edited(ops) == last'.op \in ops /\ ret' # ExcB

\* what C31 says of an edit by one of the methods ops
Propagated(ops) ==
    Edited(ops) =>
        /\ heap'[last'.id].header_changed
        /\ heap'[last'.id].header_format_changed
        /\ heap'[last'.id].vals["opts"].bts = NoneB
        /\ \A k \in 1..Len(last'.arg) :
              /\ Registered(Next_w, last'.arg[k], last'.id)
              /\ AfterWrite(Next_w, last'.id, last'.arg[k]) = <<TRUE, TRUE>>

\* C31: every structural edit of a trigger list (insert, append, delete,
\* replace by index, extend, +=) sets header_changed and
\* header_format_changed of the owning packet, invalidates the cached
\* serialization of the list and registers the notifier of the list on
\* every packet added, so that a later write to a field of that packet
\* marks the header of the owning packet as changed again
C31_Propagation ==
    [][Propagated({"insert", "append", "delitem", "delslice", "setitem",
                   "extend", "iadd"})]_vars

\* what does hold: the statement for all of them but +=
C31_ButIAdd ==
    [][Propagated({"insert", "append", "delitem", "delslice", "setitem",
                   "extend"})]_vars

\* a packet was added by +=: the notifier is not registered on it, and a
\* write to its field after bin() leaves the owning packet unchanged
C31_IAddSilent ==
    /\ last.op = "iadd" /\ ret # ExcB
    /\ ElementOf(heap, last.arg[1], last.id)
    /\ ~Registered(Now, last.arg[1], last.id)
    /\ AfterWrite(Now, last.id, last.arg[1]) = <<FALSE, FALSE>>

\* packet e was an element of the list of packet o before the step and is
\* none after it
Left(e, o) == ElementOf(heap, e, o) /\ ~ElementOf(heap', e, o)

\* what C32 says of a packet that left the list by one of the methods ops:
\* the notifier is not registered on it, and a write to its field leaves
\* the flags of the former owner as bin() set them
Deregistered(ops) ==
    \A o \in Owners : \A e \in Opts :
        (Left(e, o) /\ last'.op \in ops) =>
            /\ ~Registered(Next_w, e, o)
            /\ AfterWrite(Next_w, o, e) = <<FALSE, FALSE>>

\* C32: once a packet has left a trigger list, by deletion (index or
\* slice) or by being replaced through index assignment, the notifier of
\* the list is not registered on it, and a later write to it sets neither
\* header_changed nor header_format_changed of the former owning packet
C32_Deregistered == [][Deregistered({"delitem", "delslice", "setitem"})]_vars

\* what does hold: the statement for the deletions, and for the elements
\* the setter of the field removes
C32_Deleted == [][Deregistered({"delitem", "delslice", "assign"})]_vars

\* an element was replaced by index assignment: the replaced packet still
\* has the notifier, and a write to it marks the former owner
C32_StillRegistered ==
    /\ last.op = "setitem" /\ ret # ExcB
    /\ \E e \in Opts :
          /\ ~ElementOf(heap, e, last.id)
          /\ Registered(Now, e, last.id)
          /\ AfterWrite(Now, last.id, e) = <<TRUE, TRUE>>

\* what bin() of packet o returns after bin() of o and then e.v = 9
BinAfterWrite(w, o, e) == Owner_bin(Written(w, o, e).h, o).r

\* what bin() of the elements of the list of packet o returns, joined
ElementBytes(h, o) == FlagTriggerList_pack(Sync(h)[o].vals["opts"].items)

\* a write to element e of the list of packet o marks o, and the next
\* bin() of o has, behind n and b, what bin() of the elements returns,
\* the new value of e in it
Dirties(w, o, e) ==
    /\ AfterWrite(w, o, e) = <<TRUE, TRUE>>
    /\ Written(w, o, e).h[e].vals["v"] = 9
    /\ \E b \in {BinAfterWrite(w, o, e)} :
        \E eb \in {ElementBytes(Written(w, o, e).h, o)} :
          /\ IsBytes(b)
          /\ Len(b) >= 2 + Len(eb)
          /\ SubSeq(b, 3, 2 + Len(eb)) = eb

\* C37: writing a field of a packet element of a trigger list marks
\* header_changed and header_format_changed of the owning packet, and the
\* next bin() of the owning packet contains the new bytes of the element,
\* for elements added by the user and for elements the dissect callback
\* produced
C37_ElementsDirty ==
    \A o \in Owners : \A e \in Opts :
        ElementOf(heap, e, o) => Dirties(Now, o, e)

\* what does hold: the statement for the elements the notifier of the
\* list is registered on
C37_Registered ==
    \A o \in Owners : \A e \in Opts :
        (ElementOf(heap, e, o) /\ Registered(Now, e, o)) => Dirties(Now, o, e)

\* Tlv(b"\x02\x07\x04\x05\x08"): opts[0] was read and then written to;
\* the packet is unchanged and bin() returns the bytes it was parsed from
C37_ParsedSilent ==
    /\ orig = <<2, 7, 4, 5, 8>> /\ steps = 2
    /\ last.op = "setfield" /\ ret # ExcB
    /\ ElementOf(heap, last.id, 1)
    /\ heap[last.id].vals["v"] = 9
    /\ ~heap[1].header_changed /\ ~heap[1].header_format_changed
    /\ Owner_bin(heap, 1).r = orig

(***************************************************************************)
(* Isolation of the instances of a class.                                  *)
(***************************************************************************)
\* the packets of the elements of the list of packet o in heap h
ElementsOf(h, o) ==
    IF HoldsList(h, o)
    THEN {h[o].vals["opts"].items[k][1] : k \in 1..Len(h[o].vals["opts"].items)}
    ELSE {}

\* the packets the step operated on: the receiver and the packets it was
\* given; for an edit of a list the packets that left the list; for bin()
\* the elements it serialized
Touched ==
    {last'.id} \cup {last'.arg[k] : k \in 1..Len(last'.arg)}
    \cup (IF last'.op = "bin" THEN ElementsOf(heap, last'.id)
          ELSE IF last'.op \in {"delitem", "delslice", "assign", "setitem"}
          THEN ElementsOf(heap, last'.id) \ ElementsOf(heap', last'.id)
          ELSE {})

\* the state of packet j a user can observe: its attributes and the
\* change listeners it reads
Observable(w, j) == <<w.h[j], Listeners(w, j)>>

\* the step left every other instance of the classes of the packets it
\* operated on as it was
Isolated ==
    \A i \in Touched \cap Ids : \A j \in Ids \ Touched :
        heap[j].cls = heap[i].cls => Observable(Next_w, j) = Observable(Now, j)

\* a packet constructed now starts from the defaults of its class
FreshDefaults ==
    \A c \in NewOpts :
        \E n \in {Construct(heap, c)} :
            /\ n.h[n.r] = Construct(<<>>, c).h[1]
            /\ Listeners(World(n.h, since.shared), n.r) = <<>>

====
